---- MODULE Spec2Model ----
(***************************************************************************)
(* A model of discord.ext.ui (dpy-ui): the Session dispatch core of        *)
(* session.py - the per-class trigger registry, the per-instance           *)
(* copy-on-write trigger tables, the event router, the job loop and the    *)
(* start/cleanup lifecycle.                                                *)
(*                                                                         *)
(* Conventions.  A Python value that may be None is a sequence of at most  *)
(* one element (<<>> is None).  A Python str that the code inspects is the *)
(* sequence of its characters.  A dict is the sequence of its <<key,       *)
(* value>> pairs in insertion order.                                       *)
(***************************************************************************)
EXTENDS Integers, Sequences, FiniteSets, TLC

VARIABLES
    pc,             \* where the coroutine Session.start is suspended
    context,        \* self.context
    message,        \* self.message
    timeout,        \* self.timeout
    delete_after,   \* self.delete_after
    allowed_users,  \* self.allowed_users
    queue,          \* self._queue
    listeners,      \* the callbacks of the session registered with the bot
    hook,           \* which handle_timeout the session's class has
    exc,            \* the exception propagating out of __loop, if any
    outcome,        \* how start ended, once it has
    running,        \* the jobs whose handler is executing
    react_task,     \* the add_reactions task created by _prepare
    heap,           \* the dict objects, by reference
    cls_attrs,      \* the class attributes __ui_*__ of the session's class
    inst_attrs,     \* the instance attributes __ui_*__ of each session
    classes,        \* the session classes defined so far (class statements)
    enq_log,        \* history: every item put on the queue, in order
    executed,       \* history: the jobs whose handler was started, in order
    cleanups,       \* history: how many times _cleanup was entered
    http,           \* history: the transport calls made, with their results
    exit_by,        \* history: why __loop ended
    subs,           \* history: add_listener / remove_listener call counts
    ops,            \* history: how many table mutations were made
    shadow,         \* history: each instance's tables had it owned them
    waited,         \* the time the pending wait_for has waited, if tracked
    ticks,          \* history: the time since the loop began, if tracked
    choices,        \* Selector: self.choices
    prompt,         \* Selector: self.prompt
    _result,        \* Selector: self._result
    _use_reactions, \* Selector: self._use_reactions
    said,           \* history: what the handlers sent to the channel
    pages,          \* Paginator: self.pages, if the attribute is set
    _index,         \* Paginator: self._index
    shown,          \* what the session's message displays
    got             \* history: the get_page calls on a source, with results

vars == <<pc, context, message, timeout, delete_after, allowed_users, queue,
          listeners, hook, exc, outcome, running, react_task, heap, cls_attrs,
          inst_attrs, classes, enq_log, executed, cleanups, http, exit_by,
          subs, ops, shadow, waited, ticks, choices, prompt, _result,
          _use_reactions, said, pages, _index, shown, got>>

session_vars == <<pc, context, message, timeout, delete_after, allowed_users,
                  queue, listeners, hook, exc, outcome, running, react_task,
                  enq_log, executed, cleanups, http, exit_by, subs>>

table_vars == <<heap, cls_attrs, inst_attrs, ops, shadow>>

clock_vars == <<waited, ticks>>

helper_vars == <<choices, prompt, _result, _use_reactions, said, pages,
                 _index, shown, got>>

-----------------------------------------------------------------------------
(* Bounds *)

\* the most items ever put on one session's queue
MaxEnq == 3

\* the most add_/remove_ calls made on the instances of a class
MaxOps == 3

\* the most session classes defined
MaxClasses == 4

\* the most time units a timed session is followed for
MaxTicks == 5

\* the most choices a Selector is constructed with
MaxChoices == 3

\* the most pages a page source has
MaxPages == 3

\* the most get_page calls made on one page source
MaxCalls == 3

\* the most runs of start on one session that reach cleanup
MaxRuns == 2

-----------------------------------------------------------------------------
(* Option values and dicts *)

None == <<>>
Some(v) == <<v>>

DictKeys(d) == [i \in 1..Len(d) |-> d[i][1]]

DictHas(d, k) == \E i \in 1..Len(d) : d[i][1] = k

\* d.get(k): None when the key is absent
DictGet(d, k) ==
    IF DictHas(d, k)
    THEN Some(d[CHOOSE i \in 1..Len(d) : d[i][1] = k][2])
    ELSE None

\* d[k] = v: a present key keeps its position, a new key is appended
DictSet(d, k, v) ==
    IF DictHas(d, k)
    THEN [i \in 1..Len(d) |-> IF d[i][1] = k THEN <<k, v>> ELSE d[i]]
    ELSE Append(d, <<k, v>>)

\* d.pop(k, None)
DictPop(d, k) == SelectSeq(d, LAMBDA kv : kv[1] # k)

RECURSIVE DictUpdate(_, _)
\* for name, value in e.items(): d[name] = value
DictUpdate(d, e) ==
    IF e = <<>> THEN d
    ELSE DictUpdate(DictSet(d, e[1][1], e[1][2]), Tail(e))

-----------------------------------------------------------------------------
(* Regular expressions, as far as the patterns of the model need them *)

Digits == {"0", "1", "2"}
Letters == {"a", "k"}
\* "#" stands for a unicode emoji character
Chars == Digits \cup Letters \cup {"<", ">", ":", "_", "#", "\n"}

Chr(S) == [t |-> "chr", cs |-> S, a |-> <<>>, b |-> <<>>]
Cat(x, y) == [t |-> "cat", cs |-> {}, a |-> <<x>>, b |-> <<y>>]
Opt(x) == [t |-> "opt", cs |-> {}, a |-> <<x>>, b |-> <<>>]
Star(x) == [t |-> "star", cs |-> {}, a |-> <<x>>, b |-> <<>>]
Plus(x) == Cat(x, Star(x))

RECURSIVE Ends(_, _, _)
\* the positions j such that re matches s[i+1..j]
Ends(re, s, i) ==
    CASE re.t = "chr" ->
            IF i < Len(s) /\ s[i + 1] \in re.cs THEN {i + 1} ELSE {}
      [] re.t = "cat" ->
            UNION {Ends(re.b[1], s, j) : j \in Ends(re.a[1], s, i)}
      [] re.t = "opt" -> {i} \cup Ends(re.a[1], s, i)
      [] re.t = "star" ->
            {i} \cup UNION {Ends(re, s, j) :
                              j \in {k \in Ends(re.a[1], s, i) : k > i}}

\* the command patterns of the model: the two patterns helpers.py installs,
\* and a literal with an optional tail
PAT_NUMBER == "([0-9]+)"
PAT_ANY == "(.*)"
PAT_ONE_A == "1a?"
\* patterns of the choices of a Selector
PAT_A == "a"
PAT_AK == "ak"

Patterns == {PAT_NUMBER, PAT_ANY, PAT_ONE_A}

\* the compiled form of a pattern; whole is TRUE when one group wraps it all
Compile(p) ==
    CASE p = PAT_NUMBER -> [re |-> Plus(Chr(Digits)), whole |-> TRUE]
      [] p = PAT_ANY -> [re |-> Star(Chr(Chars \ {"\n"})), whole |-> TRUE]
      [] p = PAT_ONE_A -> [re |-> Cat(Chr({"1"}), Opt(Chr({"a"}))),
                           whole |-> FALSE]
      [] p = PAT_A -> [re |-> Chr({"a"}), whole |-> FALSE]
      [] p = PAT_AK -> [re |-> Cat(Chr({"a"}), Chr({"k"})), whole |-> FALSE]

\* re.match(p, s): the pattern matches a prefix of s
re_match(p, s) == Ends(Compile(p).re, s, 0) # {}

\* a bug: re.match where re.fullmatch is meant
re_fullmatch_as_match(p, s) == re_match(p, s)

\* re.fullmatch(p, s): the pattern matches all of s
re_fullmatch(p, s) == Len(s) \in Ends(Compile(p).re, s, 0)

\* match.groups() of a full match of s
match_groups(p, s) == IF Compile(p).whole THEN <<s>> ELSE <<>>

-----------------------------------------------------------------------------
(* The world of one session *)

\* ctx: the invoking user, the channel, and the bot's own user (ctx.me)
Ctx == [author |-> 1, channel |-> 1, me |-> 3]

Users == {Ctx.author, 2}
Channels == {Ctx.channel, 2}

\* the message context.send returns
SentMessage == [id |-> 1, channel |-> Ctx.channel]
MessageIds == {SentMessage.id, 2}

\* emoji keys of the button tables: an int (custom emoji id) or a str
IntKey(n) == <<"int", n>>
StrKey(s) == <<"str", s>>

\* payload.emoji: a unicode emoji has no id, a custom emoji has one
EMOJI_UNICODE == [id |-> None, name |-> <<"#">>]
EMOJI_CUSTOM == [id |-> Some(12), name |-> <<"k">>]
Emojis == {EMOJI_UNICODE, EMOJI_CUSTOM}

Texts == {<<"1">>, <<"1", "a">>, <<"a">>}

\* the events the bot dispatches; fields an event does not have are blank
MessageEvents ==
    [kind : {"message"}, channel : Channels, message_id : {2}, user : Users,
     content : Texts, emoji : {EMOJI_UNICODE}]
ReactionEvents ==
    [kind : {"reaction_add", "reaction_remove"}, channel : {Ctx.channel}, message_id : MessageIds,
     user : Users, content : {<<>>}, emoji : Emojis]
DeleteEvents ==
    [kind : {"delete"}, channel : {Ctx.channel}, message_id : MessageIds,
     user : {Ctx.author}, content : {<<>>}, emoji : {EMOJI_UNICODE}]

\* ui.EVERYONE, and an ordinary container of ids
EVERYONE == [everyone |-> TRUE, ids |-> {}]
UserSet(S) == [everyone |-> FALSE, ids |-> S]

\* _EVERYONE.__contains__
everyone_contains(other) == TRUE

\* `x in container`
contains(container, x) ==
    IF container.everyone THEN everyone_contains(x) ELSE x \in container.ids

-----------------------------------------------------------------------------
(* The trigger tables: dict objects on a heap, class and instance attributes *)

_BUTTONS == "__ui_buttons__"
_COMMANDS == "__ui_commands__"
_UNBUTTONS == "__ui_unbuttons__"
Attrs == {_BUTTONS, _COMMANDS, _UNBUTTONS}

Instances == {1, 2}
\* the session whose start is modelled
Self == 1

\* getattr(instance, attr): the instance attribute, else the class attribute
GetAttrRef(i, attr) ==
    IF inst_attrs[i][attr] # None THEN inst_attrs[i][attr][1]
    ELSE cls_attrs[attr]

GetAttr(i, attr) == heap[GetAttrRef(i, attr)]

\* the pattern of _parse_emoji: <a?:[a-zA-Z0-9\_]+:([0-9]+)>$
EMOJI_RE ==
    Cat(Chr({"<"}), Cat(Opt(Chr({"a"})), Cat(Chr({":"}),
    Cat(Plus(Chr(Letters \cup Digits \cup {"_"})), Cat(Chr({":"}),
    Cat(Plus(Chr(Digits)), Chr({">"})))))))

DigitValue(c) == CASE c = "0" -> 0 [] c = "1" -> 1 [] c = "2" -> 2

RECURSIVE int(_)
\* int(s) of a string of digits
int(s) ==
    IF s = <<>> THEN 0
    ELSE 10 * int(SubSeq(s, 1, Len(s) - 1)) + DigitValue(s[Len(s)])

\* match[1] of a full match of EMOJI_RE: the digits after the last colon
emoji_id_group(s) ==
    LET colon == CHOOSE i \in 1..Len(s) :
                    s[i] = ":" /\ \A j \in (i + 1)..Len(s) : s[j] # ":"
    IN  SubSeq(s, colon + 1, Len(s) - 1)

\* _parse_emoji: an int is kept, '<:name:id>' becomes the int id, any other
\* str is kept
parse_emoji(emoji) ==
    IF emoji[1] = "int" THEN emoji
    ELSE IF Len(emoji[2]) \in Ends(EMOJI_RE, emoji[2], 0)
    THEN IntKey(int(emoji_id_group(emoji[2])))
    ELSE emoji

-----------------------------------------------------------------------------
(* Jobs *)

\* the tuple (callback, *args) put on the queue
Job(func, ev, groups) == [func |-> func, ev |-> ev, groups |-> groups]

\* the queue is unbounded: put never blocks.  The model stops putting
\* after MaxEnq items.
CanPut(items) == Len(enq_log) + Len(items) <= MaxEnq

Put(items) ==
    /\ queue' = queue \o items
    /\ enq_log' = enq_log \o items

-----------------------------------------------------------------------------
(* Events: what each router callback puts on the queue *)

\* a bug: on_message without the allowed_users test
on_message_puts_any_user(m) ==
    IF m.channel # message[1].channel THEN <<>>
    ELSE LET commands == GetAttr(Self, _COMMANDS)
             hits == SelectSeq(commands,
                               LAMBDA kv : re_fullmatch(kv[1], m.content))
         IN  IF hits = <<>> THEN <<>>
             ELSE <<Some(Job(hits[1][2], m,
                             match_groups(hits[1][1], m.content)))>>

\* Session.on_message: the items the call puts (none, or one job)
on_message_puts(m) ==
    IF m.channel # message[1].channel THEN <<>>
    ELSE IF ~contains(allowed_users[1], m.user) THEN <<>>
    ELSE LET commands == GetAttr(Self, _COMMANDS)
             hits == SelectSeq(commands,
                               LAMBDA kv : re_fullmatch(kv[1], m.content))
         IN  IF hits = <<>> THEN <<>>
             ELSE <<Some(Job(hits[1][2], m,
                             match_groups(hits[1][1], m.content)))>>

\* emoji.id or emoji.name
emoji_key(emoji) ==
    IF emoji.id # None /\ emoji.id[1] # 0 THEN IntKey(emoji.id[1])
    ELSE StrKey(emoji.name)

\* Session.on_raw_reaction_action: the items the call puts
on_raw_reaction_action_puts(payload, pressed) ==
    IF payload.message_id # message[1].id THEN <<>>
    ELSE IF ~contains(allowed_users[1], payload.user) THEN <<>>
    ELSE LET lookup == IF pressed THEN GetAttr(Self, _BUTTONS)
                       ELSE GetAttr(Self, _UNBUTTONS)
             button == DictGet(lookup, emoji_key(payload.emoji))
         IN  IF button = None THEN <<>>
             ELSE <<Some(Job(button[1], payload, <<>>))>>

\* Session.on_raw_message_delete: stop() puts the sentinel None
on_raw_message_delete_puts(payload) ==
    IF payload.message_id = message[1].id THEN <<None>> ELSE <<>>

\* the bot calls a listener with an event; the call does not suspend before
\* it returns (put on an unbounded queue completes at once)
Routed(name, ev, items) ==
    /\ name \in listeners
    /\ CanPut(items)
    /\ Put(items)
    /\ UNCHANGED <<pc, context, message, timeout, delete_after, allowed_users,
                   listeners, hook, exc, outcome, running, react_task,
                   executed, cleanups, http, exit_by, subs>>
    /\ UNCHANGED <<table_vars, classes, clock_vars, helper_vars>>

on_message ==
    \E m \in MessageEvents : Routed("on_message", m, on_message_puts(m))

on_raw_reaction_add ==
    \E p \in {e \in ReactionEvents : e.kind = "reaction_add"} :
        Routed("on_raw_reaction_add", p, on_raw_reaction_action_puts(p, TRUE))

on_raw_reaction_remove ==
    \E p \in {e \in ReactionEvents : e.kind = "reaction_remove"} :
        Routed("on_raw_reaction_remove", p,
               on_raw_reaction_action_puts(p, FALSE))

on_raw_message_delete ==
    \E p \in DeleteEvents :
        Routed("on_raw_message_delete", p, on_raw_message_delete_puts(p))

\* Session.stop, called from outside the session's handlers
stop ==
    /\ CanPut(<<None>>)
    /\ Put(<<None>>)
    /\ UNCHANGED <<pc, context, message, timeout, delete_after, allowed_users,
                   listeners, hook, exc, outcome, running, react_task,
                   executed, cleanups, http, exit_by, subs>>
    /\ UNCHANGED <<table_vars, classes, clock_vars, helper_vars>>

-----------------------------------------------------------------------------
(* The lifecycle: Session.start, __loop, _prepare, _cleanup *)

Listeners == {"on_message", "on_raw_reaction_add", "on_raw_reaction_remove",
              "on_raw_message_delete"}

\* a bug: on_raw_message_delete is not registered
prepare_three_listeners ==
    /\ listeners' = listeners \cup (Listeners \ {"on_raw_message_delete"})
    /\ subs' = [subs EXCEPT !.added = @ + 1]
    /\ react_task' = [state |-> "running",
                      todo |-> DictKeys(GetAttr(Self, _BUTTONS))]

\* Session._prepare: registers the four listeners and creates the task that
\* adds one reaction per button, in table order
prepare ==
    /\ listeners' = listeners \cup Listeners
    /\ subs' = [subs EXCEPT !.added = @ + 1]
    /\ react_task' = [state |-> "running",
                      todo |-> DictKeys(GetAttr(Self, _BUTTONS))]

\* asyncio.wait_for(self._queue.get(), self.timeout) is called: its window
\* begins
WindowStart == IF waited = None THEN None ELSE Some(0)

\* the window of the pending wait_for is over.  A specification that does
\* not track time lets the window be over at any moment.
WindowElapsed == IF waited = None THEN TRUE ELSE waited[1] >= timeout[1]

\* Session._cleanup up to its await: the four listeners are removed and the
\* delete or clear_reactions request is made
cleanup_begin ==
    /\ listeners' = listeners \ Listeners
    /\ subs' = [subs EXCEPT !.removed = @ + 1]
    /\ cleanups' = cleanups + 1
    /\ pc' = "cleanup"

\* a bug: _cleanup after __loop without try/finally
loop_ended_no_finally(e, why) ==
    /\ exc' = e
    /\ exit_by' = why
    /\ IF e = None
       THEN cleanup_begin /\ UNCHANGED outcome
       ELSE /\ outcome' = e
            /\ pc' = "done"
            /\ UNCHANGED <<listeners, subs, cleanups>>

\* the try/finally of Session.start: __loop ended, by a break (e = None) or
\* by the exception e, and _cleanup is entered
loop_ended(e, why) ==
    /\ exc' = e
    /\ exit_by' = why
    /\ cleanup_begin
    /\ UNCHANGED outcome

\* Session.start up to the await of send_initial_message
start ==
    /\ pc = "idle"
    /\ context' = Some(Ctx)
    /\ allowed_users' = IF allowed_users = None
                        THEN Some(UserSet({Ctx.author}))
                        ELSE allowed_users
    /\ pc' = "send"
    /\ UNCHANGED <<message, timeout, delete_after, queue, listeners, hook,
                   exc, outcome, running, react_task, enq_log, executed,
                   cleanups, http, exit_by, subs>>
    /\ UNCHANGED <<table_vars, classes, clock_vars, helper_vars>>

\* context.send returned the message: _prepare runs and __loop begins
send_initial_message_ok ==
    /\ pc = "send"
    /\ message' = Some(SentMessage)
    /\ http' = http \cup {[call |-> "send", ok |-> TRUE]}
    /\ prepare
    /\ pc' = "waiting"
    /\ UNCHANGED <<context, timeout, delete_after, allowed_users, queue, hook,
                   exc, outcome, running, enq_log, executed, cleanups,
                   exit_by>>
    /\ waited' = WindowStart
    /\ UNCHANGED <<table_vars, classes, ticks, helper_vars>>

\* a bug: the initial send inside the try block of start
send_initial_message_error_in_try ==
    /\ pc = "send"
    /\ http' = http \cup {[call |-> "send", ok |-> FALSE]}
    /\ loop_ended(Some("HTTPException"), "none")
    /\ UNCHANGED <<context, message, timeout, delete_after, allowed_users,
                   queue, hook, running, react_task, enq_log, executed>>
    /\ UNCHANGED <<table_vars, classes, clock_vars, helper_vars>>

\* context.send raised discord.HTTPException: start raises it
send_initial_message_error ==
    /\ pc = "send"
    /\ http' = http \cup {[call |-> "send", ok |-> FALSE]}
    /\ outcome' = Some("HTTPException")
    /\ pc' = "done"
    /\ UNCHANGED <<context, message, timeout, delete_after, allowed_users,
                   queue, listeners, hook, exc, running, react_task, enq_log,
                   executed, cleanups, exit_by, subs>>
    /\ UNCHANGED <<table_vars, classes, clock_vars, helper_vars>>

\* a bug: the job is started as a task and not awaited
loop_get_unawaited ==
    /\ pc = "waiting"
    /\ queue # <<>>
    /\ queue' = Tail(queue)
    /\ IF Head(queue) = None
       THEN /\ loop_ended(None, "stop")
            /\ UNCHANGED <<running, executed>>
       ELSE /\ running' = Append(running, Head(queue)[1])
            /\ executed' = Append(executed, Head(queue)[1])
            /\ UNCHANGED <<pc, exc, exit_by, listeners, subs, cleanups,
                           outcome>>
    /\ UNCHANGED <<context, message, timeout, delete_after, allowed_users,
                   hook, react_task, enq_log, http>>
    /\ UNCHANGED <<table_vars, classes, clock_vars, helper_vars>>

\* a bug: the sentinel is skipped (continue) and not obeyed (break)
loop_get_past_sentinel ==
    /\ pc = "waiting"
    /\ queue # <<>>
    /\ queue' = Tail(queue)
    /\ IF Head(queue) = None
       THEN UNCHANGED <<pc, running, executed>>
       ELSE /\ running' = Append(running, Head(queue)[1])
            /\ executed' = Append(executed, Head(queue)[1])
            /\ pc' = "executing"
    /\ UNCHANGED <<exc, exit_by, listeners, subs, cleanups, outcome>>
    /\ UNCHANGED <<context, message, timeout, delete_after, allowed_users,
                   hook, react_task, enq_log, http>>
    /\ UNCHANGED <<table_vars, classes, clock_vars, helper_vars>>

\* __loop: queue.get() returned an item; None breaks, a job is awaited
loop_get ==
    /\ pc = "waiting"
    /\ queue # <<>>
    /\ queue' = Tail(queue)
    /\ IF Head(queue) = None
       THEN /\ loop_ended(None, "stop")
            /\ UNCHANGED <<running, executed>>
       ELSE /\ running' = Append(running, Head(queue)[1])
            /\ executed' = Append(executed, Head(queue)[1])
            /\ pc' = "executing"
            /\ UNCHANGED <<exc, exit_by, listeners, subs, cleanups, outcome>>
    /\ UNCHANGED <<context, message, timeout, delete_after, allowed_users,
                   hook, react_task, enq_log, http>>
    /\ UNCHANGED <<table_vars, classes, clock_vars, helper_vars>>

\* a bug: the default handle_timeout returns and does not raise
loop_timeout_not_raised ==
    /\ pc = "waiting"
    /\ queue = <<>>
    /\ timeout # None
    /\ WindowElapsed
    /\ IF hook = "default"
       THEN loop_ended(None, "timeout")
       ELSE /\ pc' = "hook"
            /\ UNCHANGED <<exc, exit_by, listeners, subs, cleanups, outcome>>
    /\ UNCHANGED <<context, message, timeout, delete_after, allowed_users,
                   queue, hook, running, react_task, enq_log, executed, http>>
    /\ UNCHANGED <<table_vars, classes, clock_vars, helper_vars>>

\* __loop: wait_for timed out: handle_timeout is awaited.  The default
\* raises asyncio.TimeoutError; an override runs, and may suspend.
loop_timeout ==
    /\ pc = "waiting"
    /\ queue = <<>>
    /\ timeout # None
    /\ WindowElapsed
    /\ IF hook = "default"
       THEN loop_ended(Some("TimeoutError"), "timeout")
       ELSE /\ pc' = "hook"
            /\ UNCHANGED <<exc, exit_by, listeners, subs, cleanups, outcome>>
    /\ UNCHANGED <<context, message, timeout, delete_after, allowed_users,
                   queue, hook, running, react_task, enq_log, executed, http>>
    /\ UNCHANGED <<table_vars, classes, clock_vars, helper_vars>>

\* a bug: after an overriding handle_timeout returned the loop goes on
handle_timeout_return_continues ==
    /\ pc = "hook"
    /\ pc' = "waiting"
    /\ waited' = WindowStart
    /\ UNCHANGED <<exc, exit_by, listeners, subs, cleanups, outcome>>
    /\ UNCHANGED <<context, message, timeout, delete_after, allowed_users,
                   queue, hook, running, react_task, enq_log, executed, http>>
    /\ UNCHANGED <<table_vars, classes, ticks, helper_vars>>

\* an overriding handle_timeout returned: __loop breaks
handle_timeout_return ==
    /\ pc = "hook"
    /\ loop_ended(None, "timeout")
    /\ UNCHANGED <<context, message, timeout, delete_after, allowed_users,
                   queue, hook, running, react_task, enq_log, executed, http>>
    /\ UNCHANGED <<table_vars, classes, clock_vars, helper_vars>>

\* an overriding handle_timeout raised: the exception leaves __loop
handle_timeout_raise ==
    /\ pc = "hook"
    /\ loop_ended(Some("HookError"), "timeout")
    /\ UNCHANGED <<context, message, timeout, delete_after, allowed_users,
                   queue, hook, running, react_task, enq_log, executed, http>>
    /\ UNCHANGED <<table_vars, classes, clock_vars, helper_vars>>

\* the handler of the running job calls self.stop()
handler_stop ==
    /\ pc = "executing"
    /\ CanPut(<<None>>)
    /\ Put(<<None>>)
    /\ UNCHANGED <<pc, context, message, timeout, delete_after, allowed_users,
                   listeners, hook, exc, outcome, running, react_task,
                   executed, cleanups, http, exit_by, subs>>
    /\ UNCHANGED <<table_vars, classes, clock_vars, helper_vars>>

\* a bug: one window for the whole session, not restarted by a job
handler_return_window_kept ==
    /\ pc = "executing"
    /\ running' = Tail(running)
    /\ pc' = "waiting"
    /\ UNCHANGED <<context, message, timeout, delete_after, allowed_users,
                   queue, listeners, hook, exc, outcome, react_task, enq_log,
                   executed, cleanups, http, exit_by, subs>>
    /\ UNCHANGED <<table_vars, classes, clock_vars, helper_vars>>

\* the handler of the running job returned: __loop waits for the next item
handler_return ==
    /\ pc = "executing"
    /\ running' = Tail(running)
    /\ pc' = "waiting"
    /\ UNCHANGED <<context, message, timeout, delete_after, allowed_users,
                   queue, listeners, hook, exc, outcome, react_task, enq_log,
                   executed, cleanups, http, exit_by, subs>>
    /\ waited' = WindowStart
    /\ UNCHANGED <<table_vars, classes, ticks, helper_vars>>

\* the handler of the running job raised: the exception leaves __loop
handler_raise ==
    /\ pc = "executing"
    /\ running' = Tail(running)
    /\ loop_ended(Some("HandlerError"), "error")
    /\ UNCHANGED <<context, message, timeout, delete_after, allowed_users,
                   queue, hook, react_task, enq_log, executed, http>>
    /\ UNCHANGED <<table_vars, classes, clock_vars, helper_vars>>

\* the rest of _cleanup: the request returned (ok) or raised HTTPException,
\* which suppress() swallows; then self.message = None and start ends
cleanup_end(ok) ==
    /\ pc = "cleanup"
    /\ http' = http \cup {[call |-> IF delete_after THEN "delete"
                                    ELSE "clear_reactions",
                           ok |-> ok]}
    /\ message' = None
    /\ outcome' = IF exc = None THEN Some("returned") ELSE exc
    /\ pc' = "done"
    /\ UNCHANGED <<context, timeout, delete_after, allowed_users, queue,
                   listeners, hook, exc, running, react_task, enq_log,
                   executed, cleanups, exit_by, subs>>
    /\ UNCHANGED <<table_vars, classes, clock_vars, helper_vars>>

cleanup_ok == cleanup_end(TRUE)

\* a bug: _cleanup without suppress(discord.HTTPException)
cleanup_http_error_raised ==
    /\ pc = "cleanup"
    /\ http' = http \cup {[call |-> IF delete_after THEN "delete"
                                    ELSE "clear_reactions",
                           ok |-> FALSE]}
    /\ outcome' = Some("HTTPException")
    /\ pc' = "done"
    /\ UNCHANGED <<context, message, timeout, delete_after, allowed_users,
                   queue, listeners, hook, exc, running, react_task, enq_log,
                   executed, cleanups, exit_by, subs>>
    /\ UNCHANGED <<table_vars, classes, clock_vars, helper_vars>>

cleanup_http_error == cleanup_end(FALSE)

\* one iteration of add_reactions: self.message.add_reaction(emoji)
add_reactions_step ==
    /\ react_task.state = "running"
    /\ IF react_task.todo = <<>>
       THEN /\ react_task' = [react_task EXCEPT !.state = "done"]
            /\ UNCHANGED http
       ELSE IF message = None
       THEN /\ react_task' = [react_task EXCEPT !.state = "crashed"]
            /\ UNCHANGED http
       ELSE \E ok \in BOOLEAN :
              /\ http' = http \cup {[call |-> "add_reaction", ok |-> ok]}
              /\ react_task' =
                    IF ok
                    THEN [react_task EXCEPT !.todo = Tail(@)]
                    ELSE [react_task EXCEPT !.state = "crashed"]
    /\ UNCHANGED <<pc, context, message, timeout, delete_after, allowed_users,
                   queue, listeners, hook, exc, outcome, running, enq_log,
                   executed, cleanups, exit_by, subs>>
    /\ UNCHANGED <<table_vars, classes, clock_vars, helper_vars>>

-----------------------------------------------------------------------------
(* The session of the lifecycle specification *)

\* the handlers the session classes of the model declare
ButtonsOf(cls) ==
    IF cls.buttons THEN <<<<parse_emoji(StrKey(<<"#">>)), "on_press">>>>
    ELSE <<>>
UnbuttonsOf(cls) ==
    IF cls.unbuttons
    THEN <<<<parse_emoji(StrKey(<<"<", ":", "k", ":", "1", "2", ">">>)),
             "on_release">>>>
    ELSE <<>>
CommandsOf(cls) ==
    CASE cls.commands = "none" -> <<>>
      [] cls.commands = "number" -> <<<<PAT_NUMBER, "on_number">>>>
      [] cls.commands = "number, one_a" ->
            <<<<PAT_NUMBER, "on_number">>, <<PAT_ONE_A, "on_one_a">>>>
      [] cls.commands = "one_a, number" ->
            <<<<PAT_ONE_A, "on_one_a">>, <<PAT_NUMBER, "on_number">>>>

\* the sessions the lifecycle is run for: a session class (which triggers it
\* declares, which handle_timeout it has) and the arguments of __init__.
\* Every timeout / delete_after / handle_timeout combination for a session
\* of the invoking user; every allowed_users for a session without timeout;
\* both orders of two overlapping commands.
Sessions ==
    [buttons : {TRUE}, unbuttons : {FALSE}, commands : {"number"},
     hook : {"default", "custom"}, timeout : {None, Some(30)},
     delete_after : BOOLEAN, allowed_users : {None}]
    \cup
    [buttons : {TRUE}, unbuttons : {TRUE}, commands : {"number"},
     hook : {"default"}, timeout : {None}, delete_after : {FALSE},
     allowed_users : {Some(EVERYONE), Some(UserSet({2}))}]
    \cup
    [buttons : {FALSE}, unbuttons : {FALSE},
     commands : {"number, one_a", "one_a, number"},
     hook : {"default"}, timeout : {None}, delete_after : {FALSE},
     allowed_users : {None}]

\* the state after Session.__init__ of an instance of the class
InitFieldsOf(s, buttons, commands, unbuttons) ==
    /\ context = None
    /\ message = None
    /\ timeout = s.timeout
    /\ delete_after = s.delete_after
    /\ allowed_users = s.allowed_users
    /\ queue = <<>>
    /\ listeners = {}
    /\ hook = s.hook
    /\ exc = None
    /\ outcome = None
    /\ running = <<>>
    /\ react_task = [state |-> "none", todo |-> <<>>]
    /\ heap = <<buttons, commands, unbuttons>>
    /\ cls_attrs = (_BUTTONS :> 1) @@ (_COMMANDS :> 2) @@ (_UNBUTTONS :> 3)
    /\ inst_attrs = [i \in Instances |-> [a \in Attrs |-> None]]
    /\ classes = <<>>
    /\ enq_log = <<>>
    /\ executed = <<>>
    /\ cleanups = 0
    /\ http = {}
    /\ exit_by = "none"
    /\ subs = [added |-> 0, removed |-> 0]
    /\ ops = 0
    /\ shadow = [i \in Instances |-> [a \in Attrs |-> heap[cls_attrs[a]]]]

InitFields(s) == InitFieldsOf(s, ButtonsOf(s), CommandsOf(s), UnbuttonsOf(s))

\* time is not tracked
NoClock ==
    /\ waited = None
    /\ ticks = 0

\* the session is a plain Session: it has no field of Selector or Paginator
NoHelper ==
    /\ choices = <<>>
    /\ prompt = None
    /\ _result = None
    /\ _use_reactions = FALSE
    /\ said = <<>>
    /\ pages = None
    /\ _index = 0
    /\ shown = None
    /\ got = <<>>

InitSession(s) == pc = "idle" /\ InitFields(s) /\ NoClock /\ NoHelper

Init == \E s \in Sessions : InitSession(s)

Next ==
    \/ start
    \/ send_initial_message_ok
    \/ send_initial_message_error
    \/ loop_get
    \/ loop_timeout
    \/ handle_timeout_return
    \/ handler_stop
    \/ handler_return
    \/ handler_raise
    \/ cleanup_ok
    \/ cleanup_http_error
    \/ add_reactions_step
    \/ on_message
    \/ on_raw_reaction_add
    \/ on_raw_reaction_remove
    \/ on_raw_message_delete
    \/ stop

Spec == Init /\ [][Next]_vars

-----------------------------------------------------------------------------
(* The loop with time: the window of asyncio.wait_for *)

\* self.timeout of the timed sessions, in time units
Window == 2

\* one unit of time passes while start is in __loop.  A pending wait_for
\* does not outlive its window: at the deadline it returns the item that has
\* arrived or raises asyncio.TimeoutError.  A handler or handle_timeout that
\* is being awaited takes whatever time it takes.
tick ==
    /\ waited # None
    /\ pc \in {"waiting", "executing", "hook"}
    /\ ticks < MaxTicks
    /\ IF pc = "waiting"
       THEN /\ IF timeout = None THEN TRUE ELSE waited[1] < timeout[1]
            /\ waited' = Some(waited[1] + 1)
       ELSE waited' = waited
    /\ ticks' = ticks + 1
    /\ UNCHANGED session_vars
    /\ UNCHANGED <<table_vars, classes, helper_vars>>

\* the sessions followed with time: a timeout, either handle_timeout
ClockSessions ==
    [buttons : {FALSE}, unbuttons : {FALSE}, commands : {"number"},
     hook : {"default", "custom"}, timeout : {Some(Window)},
     delete_after : {FALSE}, allowed_users : {None}]

InitClock ==
    \E s \in ClockSessions :
        /\ pc = "idle"
        /\ InitFields(s)
        /\ waited = Some(0)
        /\ ticks = 0
        /\ NoHelper

NextClock == Next \/ tick

SpecClock == InitClock /\ [][NextClock]_vars

-----------------------------------------------------------------------------
(* The loop of a session with a timeout, whose handle_timeout may raise *)

\* sessions with a timeout, with the default hook and with an override
HookSessions ==
    [buttons : {FALSE}, unbuttons : {FALSE}, commands : {"number"},
     hook : {"default", "custom"}, timeout : {Some(30)},
     delete_after : BOOLEAN, allowed_users : {None}]

InitHook == \E s \in HookSessions : InitSession(s)

NextHook == Next \/ handle_timeout_raise

SpecHook == InitHook /\ [][NextHook]_vars

-----------------------------------------------------------------------------
(* A second start on a session whose start has ended *)

\* Session.start called again on the instance, up to the await of
\* send_initial_message: start tests nothing, the queue and the tables are
\* those the first call left
start_again ==
    /\ pc = "done"
    /\ cleanups < MaxRuns
    /\ context' = Some(Ctx)
    /\ allowed_users' = IF allowed_users = None
                        THEN Some(UserSet({Ctx.author}))
                        ELSE allowed_users
    /\ pc' = "send"
    /\ exc' = None
    /\ outcome' = None
    /\ exit_by' = "none"
    /\ UNCHANGED <<message, timeout, delete_after, queue, listeners, hook,
                   running, react_task, enq_log, executed, cleanups, http,
                   subs>>
    /\ UNCHANGED <<table_vars, classes, clock_vars, helper_vars>>

\* sessions with a button, a command and a timeout
RestartSessions ==
    [buttons : {TRUE}, unbuttons : {FALSE}, commands : {"number"},
     hook : {"default", "custom"}, timeout : {Some(30)},
     delete_after : {FALSE}, allowed_users : {None}]

InitRestart == \E s \in RestartSessions : InitSession(s)

NextRestart == Next \/ start_again

SpecRestart == InitRestart /\ [][NextRestart]_vars

-----------------------------------------------------------------------------
(* Selector (helpers.py): construction *)

\* Choice(value, button=..., pattern=...); the label is str(value)
Choice(value, button, pattern) ==
    [value |-> value, button |-> button, pattern |-> pattern]

\* a unicode emoji, and a custom emoji written as <:name:id>
BUTTON_UNICODE == <<"#">>
BUTTON_CUSTOM == <<"<", ":", "k", ":", "1", "2", ">">>

CH_AK == Choice("AK", None, Some(PAT_AK))
CH_A == Choice("A", None, Some(PAT_A))
CH_X == Choice("X", None, None)
CH_U == Choice("U", Some(BUTTON_UNICODE), Some(PAT_A))
CH_K == Choice("K", Some(BUTTON_CUSTOM), None)

ChoicePool == {CH_AK, CH_A, CH_X, CH_U, CH_K}

\* the lists a Selector is constructed with: any list of up to MaxChoices
ChoiceLists == UNION {[1..n -> ChoicePool] : n \in 0..MaxChoices}

\* bool(choice.button)
has_button(choice) == choice.button # None /\ choice.button[1] # <<>>

\* the prompts: a str, a discord.Embed, a Message(content=...)
PROMPT_STR == [kind |-> "str", content |-> Some("prompt"), embed |-> None]
PROMPT_EMBED == [kind |-> "embed", content |-> None, embed |-> Some("prompt")]
PROMPT_MESSAGE ==
    [kind |-> "message", content |-> Some("prompt"), embed |-> None]

\* the class Selector declares no trigger; select() passes no option
SelectorClass ==
    [buttons |-> FALSE, unbuttons |-> FALSE, commands |-> "none",
     hook |-> "default", timeout |-> None, delete_after |-> FALSE,
     allowed_users |-> None]

\* Selector.__init__ entered: super().__init__ has run and the fields are
\* assigned; the validation of the choices is still to come
SelectorFields(cs, p) ==
    /\ InitFields(SelectorClass)
    /\ NoClock
    /\ choices = cs
    /\ prompt = Some(p)
    /\ _result = None
    /\ _use_reactions = FALSE
    /\ said = <<>>
    /\ pages = None
    /\ _index = 0
    /\ shown = None
    /\ got = <<>>

\* Selector.__init__: the validation of the choices.  self.choices[0] of an
\* empty list raises IndexError; a choice that differs from the first in
\* having a button raises ValueError.
Selector_init ==
    /\ pc = "new"
    /\ IF choices = <<>>
       THEN /\ outcome' = Some("IndexError")
            /\ pc' = "done"
       ELSE IF \E i \in 2..Len(choices) :
                  has_button(choices[i]) # has_button(choices[1])
       THEN /\ outcome' = Some("ValueError")
            /\ pc' = "done"
       ELSE /\ pc' = "idle"
            /\ UNCHANGED outcome
    /\ UNCHANGED <<context, message, timeout, delete_after, allowed_users,
                   queue, listeners, hook, exc, running, react_task, enq_log,
                   executed, cleanups, http, exit_by, subs>>
    /\ UNCHANGED <<table_vars, classes, clock_vars, helper_vars>>

InitSelectorArgs ==
    \E cs \in ChoiceLists : pc = "new" /\ SelectorFields(cs, PROMPT_STR)

SpecSelectorInit == InitSelectorArgs /\ [][Selector_init]_vars

-----------------------------------------------------------------------------
(* Selector (helpers.py): start, the initial message and the callbacks.   *)
(* The request a callback makes (context.send) is taken to succeed: a     *)
(* callback whose request fails is a handler that raises, see             *)
(* handler_raise.                                                          *)

RECURSIVE button_entries(_, _)
\* for choice in self.choices: if choice.button:
\*     buttons[choice.button] = self._on_button_press
button_entries(cs, buttons) ==
    IF cs = <<>> THEN buttons
    ELSE button_entries(Tail(cs),
            IF has_button(Head(cs))
            THEN DictSet(buttons, StrKey(Head(cs).button[1]),
                         "_on_button_press")
            ELSE buttons)

\* Selector.start up to the await of send_initial_message in Session.start.
\* add_reactions is ctx.channel.permissions_for(ctx.me).add_reactions.
Selector_start ==
    \E add_reactions \in BOOLEAN :
        /\ pc = "idle"
        /\ LET use == /\ add_reactions
                      /\ \E i \in 1..Len(choices) : has_button(choices[i])
               attr == IF use THEN _BUTTONS ELSE _COMMANDS
               copy == GetAttr(Self, attr)
               filled ==
                  IF use THEN button_entries(choices, copy)
                  ELSE DictSet(DictSet(copy, PAT_NUMBER, "_on_number_input"),
                               PAT_ANY, "_on_text_input")
           IN  /\ _use_reactions' = use
               /\ heap' = Append(heap, filled)
               /\ inst_attrs' =
                     [inst_attrs EXCEPT ![Self][attr] = Some(Len(heap) + 1)]
        /\ context' = Some(Ctx)
        /\ allowed_users' = IF allowed_users = None
                            THEN Some(UserSet({Ctx.author}))
                            ELSE allowed_users
        /\ pc' = "send"
        /\ UNCHANGED <<message, timeout, delete_after, queue, listeners, hook,
                       exc, outcome, running, react_task, enq_log, executed,
                       cleanups, http, exit_by, subs>>
        /\ UNCHANGED <<cls_attrs, ops, shadow, classes, clock_vars>>
        /\ UNCHANGED <<choices, prompt, _result, said, pages, _index, shown,
                       got>>

\* Selector.format_choices: one line per choice, "button = label" or
\* "i = label"
format_choices ==
    [i \in 1..Len(choices) |->
        IF _use_reactions THEN <<choices[i].button[1], choices[i].value>>
        ELSE <<i, choices[i].value>>]

\* Message.to_args(message): the keyword arguments of send
to_args(p) ==
    CASE p.kind = "embed" -> [content |-> None, embed |-> Some(p.embed[1])]
      [] p.kind = "message" -> [content |-> p.content, embed |-> p.embed]
      [] p.kind = "str" -> [content |-> Some(p.content[1]), embed |-> None]

\* Selector.format_prompt: `fields` is assigned only when the prompt is not
\* a Message, and is read in any case (ok is FALSE: UnboundLocalError).
\* f'{text}\n{choices}' is the pair <<text, choices>>.
format_prompt(p) ==
    IF p.kind = "message"
    THEN [ok |-> FALSE, content |-> None, embed |-> None]
    ELSE LET fields == to_args(p)
         IN  IF fields.embed # None
             THEN [ok |-> TRUE, content |-> fields.content,
                   embed |-> Some(<<fields.embed[1], format_choices>>)]
             ELSE [ok |-> TRUE, embed |-> fields.embed,
                   content |-> Some(<<fields.content[1], format_choices>>)]

\* Selector.send_initial_message returned the message: _prepare, __loop
Selector_send_initial_message_ok ==
    /\ pc = "send"
    /\ format_prompt(prompt[1]).ok
    /\ message' = Some(SentMessage)
    /\ http' = http \cup {[call |-> "send", ok |-> TRUE]}
    /\ shown' = Some([content |-> format_prompt(prompt[1]).content,
                      embed |-> format_prompt(prompt[1]).embed])
    /\ prepare
    /\ pc' = "waiting"
    /\ waited' = WindowStart
    /\ UNCHANGED <<context, timeout, delete_after, allowed_users, queue, hook,
                   exc, outcome, running, enq_log, executed, cleanups,
                   exit_by>>
    /\ UNCHANGED <<table_vars, classes, ticks>>
    /\ UNCHANGED <<choices, prompt, _result, _use_reactions, said, pages,
                   _index, got>>

\* context.send raised discord.HTTPException
Selector_send_initial_message_error ==
    /\ format_prompt(prompt[1]).ok
    /\ send_initial_message_error

\* format_prompt raised UnboundLocalError: start raises it, before the send
Selector_format_prompt_error ==
    /\ pc = "send"
    /\ ~format_prompt(prompt[1]).ok
    /\ outcome' = Some("UnboundLocalError")
    /\ pc' = "done"
    /\ UNCHANGED <<context, message, timeout, delete_after, allowed_users,
                   queue, listeners, hook, exc, running, react_task, enq_log,
                   executed, cleanups, http, exit_by, subs>>
    /\ UNCHANGED <<table_vars, classes, clock_vars, helper_vars>>

\* the texts of the messages a Selector gets
SelectorTexts ==
    {<<"0">>, <<"2">>, <<"1", "2">>, <<"a">>, <<"a", "k">>, <<"k">>,
     <<"a", "\n">>}

SelectorMessages ==
    [kind : {"message"}, channel : Channels, message_id : {2}, user : Users,
     content : SelectorTexts, emoji : {EMOJI_UNICODE}]

\* Session.on_message of a Selector
Selector_on_message ==
    \E m \in SelectorMessages : Routed("on_message", m, on_message_puts(m))

DigitChar(d) == CASE d = 0 -> "0" [] d = 1 -> "1" [] d = 2 -> "2"

RECURSIVE str_int(_)
\* str(n) of an int n >= 0
str_int(n) ==
    IF n < 10 THEN <<DigitChar(n)>>
    ELSE Append(str_int(n \div 10), DigitChar(n % 10))

\* str(payload.emoji): the name of a unicode emoji, <:name:id> of a custom
emoji_str(emoji) ==
    IF emoji.id = None THEN emoji.name
    ELSE <<"<", ":">> \o emoji.name \o <<":">> \o str_int(emoji.id[1])
         \o <<">">>

\* the callback of the running job returns
callback_returns ==
    /\ running' = Tail(running)
    /\ pc' = "waiting"
    /\ waited' = WindowStart
    /\ UNCHANGED <<exc, exit_by, listeners, subs, cleanups, outcome>>

\* await self.stop() in a callback
callback_stops == CanPut(<<None>>) /\ Put(<<None>>)

\* what no callback of a Selector changes
callback_frame ==
    /\ UNCHANGED <<context, message, timeout, delete_after, allowed_users,
                   hook, react_task, executed, http>>
    /\ UNCHANGED <<table_vars, classes, ticks>>
    /\ UNCHANGED <<choices, prompt, _use_reactions, pages, _index, shown,
                   got>>

\* Selector._on_button_press(payload)
_on_button_press ==
    /\ pc = "executing"
    /\ running[1].func = "_on_button_press"
    /\ LET hits == SelectSeq(choices,
                      LAMBDA c : c.button = Some(emoji_str(running[1].ev.emoji)))
       IN  IF hits = <<>>
           THEN /\ running' = Tail(running)
                /\ loop_ended(Some("AttributeError"), "error")
                /\ UNCHANGED <<queue, enq_log, waited, _result>>
           ELSE /\ _result' = Some(hits[1].value)
                /\ callback_stops
                /\ callback_returns
    /\ UNCHANGED said
    /\ callback_frame

\* a bug: the lower bound of the number is not tested (index 0 is the last
\* choice)
_on_number_input_no_lower_bound ==
    /\ pc = "executing"
    /\ running[1].func = "_on_number_input"
    /\ LET number == running[1].groups[1]
           index == int(number)
       IN  IF ~(index <= Len(choices))
           THEN /\ said' = Append(said, <<"out of range", number>>)
                /\ UNCHANGED <<queue, enq_log, _result>>
           ELSE /\ _result' =
                      Some(choices[IF index = 0 THEN Len(choices)
                                   ELSE index].value)
                /\ callback_stops
                /\ UNCHANGED said
    /\ callback_returns
    /\ callback_frame

\* Selector._on_number_input(message, number)
_on_number_input ==
    /\ pc = "executing"
    /\ running[1].func = "_on_number_input"
    /\ LET number == running[1].groups[1]
           index == int(number)
       IN  IF ~(0 < index /\ index <= Len(choices))
           THEN /\ said' = Append(said, <<"out of range", number>>)
                /\ UNCHANGED <<queue, enq_log, _result>>
           ELSE /\ _result' = Some(choices[index].value)
                /\ callback_stops
                /\ UNCHANGED said
    /\ callback_returns
    /\ callback_frame

\* the values of the choices whose pattern re.match finds in input_
text_matches(input_) ==
    LET hits == SelectSeq(choices,
                   LAMBDA c : c.pattern # None
                              /\ re_match(c.pattern[1], input_))
    IN  [i \in 1..Len(hits) |-> hits[i].value]

\* Selector._on_text_input(message, input_)
_on_text_input ==
    /\ pc = "executing"
    /\ running[1].func = "_on_text_input"
    /\ LET input_ == running[1].groups[1]
           matches == text_matches(input_)
       IN  IF matches = <<>>
           THEN UNCHANGED <<queue, enq_log, _result, said>>
           ELSE IF Len(matches) > 1
           THEN /\ said' = Append(said, <<"ambiguous", input_>>)
                /\ UNCHANGED <<queue, enq_log, _result>>
           ELSE /\ _result' = Some(matches[1])
                /\ callback_stops
                /\ UNCHANGED said
    /\ callback_returns
    /\ callback_frame

\* the selectors that are started: text choices, with each kind of prompt,
\* and choices with buttons
SelectorArgs ==
    [choices : {<<CH_AK, CH_A>>}, prompt : {PROMPT_STR, PROMPT_MESSAGE}]
    \cup [choices : {<<CH_A, CH_X>>}, prompt : {PROMPT_EMBED}]
    \cup [choices : {<<CH_U, CH_K>>}, prompt : {PROMPT_STR}]

InitSelector ==
    \E a \in SelectorArgs : pc = "idle" /\ SelectorFields(a.choices, a.prompt)

NextSelector ==
    \/ Selector_start
    \/ Selector_send_initial_message_ok
    \/ Selector_send_initial_message_error
    \/ Selector_format_prompt_error
    \/ Selector_on_message
    \/ on_raw_reaction_add
    \/ on_raw_reaction_remove
    \/ on_raw_message_delete
    \/ loop_get
    \/ _on_button_press
    \/ _on_number_input
    \/ _on_text_input
    \/ cleanup_ok
    \/ cleanup_http_error
    \/ add_reactions_step

SpecSelector == InitSelector /\ [][NextSelector]_vars

-----------------------------------------------------------------------------
(* Page sources (paginator.py): IterableSource and AsyncIterableSource *)

Min(a, b) == IF a < b THEN a ELSE b

\* the pages of a backing iterable of n items: page i is the item i
Pages(n) == [i \in 1..n |-> i - 1]

\* IterableSource.__init__ / AsyncIterableSource.__init__: the iterator
\* over the iterable (the items not yet consumed) and the empty cache
IterableSource(iterable) ==
    [kind |-> "iterable", _it |-> iterable, _cache |-> <<>>]
AsyncIterableSource(iterable) ==
    [kind |-> "async", _it |-> iterable, _cache |-> <<>>]

\* list(islice(it, n)): the next n items of the iterator, or all that are
\* left
islice(it, n) == SubSeq(it, 1, Min(n, Len(it)))

RECURSIVE atake_loop(_, _, _)
\* the loop of atake: append the element, i += 1, break when i >= n
atake_loop(it, n, i) ==
    IF it = <<>> THEN <<>>
    ELSE IF i + 1 >= n THEN <<Head(it)>>
    ELSE <<Head(it)>> \o atake_loop(Tail(it), n, i + 1)

\* atake(aiterable, n)
atake(it, n) == atake_loop(it, n, 0)

\* self._cache[index], or InvalidPage for the IndexError
cache_lookup(src, index) ==
    [pages |-> src,
     page |-> IF index < Len(src._cache) THEN Some(src._cache[index + 1])
              ELSE None,
     error |-> IF index < Len(src._cache) THEN None
               ELSE Some("InvalidPage")]

\* a bug: the cache is replaced by the items taken, not extended
IterableSource_get_page_cache_replaced(src, index) ==
    IF index < 0
    THEN [pages |-> src, page |-> None, error |-> Some("InvalidPage")]
    ELSE LET cache_len == Len(src._cache)
             taken == islice(src._it, index + 1 - cache_len)
             filled == IF index >= cache_len
                       THEN [src EXCEPT
                               !._cache = taken,
                               !._it = SubSeq(@, Len(taken) + 1, Len(@))]
                       ELSE src
         IN  cache_lookup(filled, index)

\* IterableSource.get_page(index): the source after the call, and the page
\* returned or the exception raised
IterableSource_get_page(src, index) ==
    IF index < 0
    THEN [pages |-> src, page |-> None, error |-> Some("InvalidPage")]
    ELSE LET cache_len == Len(src._cache)
             taken == islice(src._it, index + 1 - cache_len)
             filled == IF index >= cache_len
                       THEN [src EXCEPT
                               !._cache = @ \o taken,
                               !._it = SubSeq(@, Len(taken) + 1, Len(@))]
                       ELSE src
         IN  cache_lookup(filled, index)

\* AsyncIterableSource.get_page(index)
AsyncIterableSource_get_page(src, index) ==
    IF index < 0
    THEN [pages |-> src, page |-> None, error |-> Some("InvalidPage")]
    ELSE LET cache_len == Len(src._cache)
             taken == atake(src._it, index + 1 - cache_len)
             filled == IF index >= cache_len
                       THEN [src EXCEPT
                               !._cache = @ \o taken,
                               !._it = SubSeq(@, Len(taken) + 1, Len(@))]
                       ELSE src
         IN  cache_lookup(filled, index)

\* self.pages.get_page(index); a Paginator without the attribute pages
\* raises AttributeError
pages_get_page(index) ==
    IF pages = None
    THEN [pages |-> None, page |-> None, error |-> Some("AttributeError")]
    ELSE LET r == IF pages[1].kind = "async"
                  THEN AsyncIterableSource_get_page(pages[1], index)
                  ELSE IterableSource_get_page(pages[1], index)
         IN  [pages |-> Some(r.pages), page |-> r.page, error |-> r.error]

\* the indices asked of a source: negative, present, and past the end
PageIndices == -1 .. MaxPages + 1

\* a caller awaits get_page(index) of the source
get_page ==
    \E index \in PageIndices :
        /\ Len(got) < MaxCalls
        /\ LET r == pages_get_page(index)
           IN  /\ pages' = r.pages
               /\ got' = Append(got, [index |-> index, page |-> r.page,
                                      error |-> r.error])
        /\ UNCHANGED session_vars
        /\ UNCHANGED <<table_vars, classes, clock_vars>>
        /\ UNCHANGED <<choices, prompt, _result, _use_reactions, said,
                       _index, shown>>

\* a source of either class over an iterable of up to MaxPages items
InitPages ==
    \E n \in 0..MaxPages :
    \E source \in {IterableSource(Pages(n)), AsyncIterableSource(Pages(n))} :
        /\ pc = "idle"
        /\ InitFields(SelectorClass)
        /\ NoClock
        /\ choices = <<>>
        /\ prompt = None
        /\ _result = None
        /\ _use_reactions = FALSE
        /\ said = <<>>
        /\ pages = Some(source)
        /\ _index = 0
        /\ shown = None
        /\ got = <<>>

SpecPages == InitPages /\ [][get_page]_vars

-----------------------------------------------------------------------------
(* Paginator (paginator.py).  The edit a button makes (message.edit) is    *)
(* taken to succeed: a button whose request fails is a handler that       *)
(* raises, see handler_raise.                                             *)

PREVIOUS_EMOJI == <<"<">>
STOP_EMOJI == <<"#">>
NEXT_EMOJI == <<">">>

\* the buttons the class Paginator declares, in the order of the class body
PaginatorButtons ==
    <<<<StrKey(PREVIOUS_EMOJI), "previous">>, <<StrKey(STOP_EMOJI), "quit">>,
      <<StrKey(NEXT_EMOJI), "next">>>>

\* a Paginator constructed with no option of Session
PaginatorClass ==
    [buttons |-> TRUE, unbuttons |-> FALSE, commands |-> "none",
     hook |-> "default", timeout |-> None, delete_after |-> FALSE,
     allowed_users |-> None]

\* the sources a Paginator is constructed with: an iterable, an async
\* iterable, and an object that only provides get_page
PaginatorSources ==
    [kind : {"iterable", "async"}, items : {Pages(n) : n \in 0..MaxPages}]
    \cup {[kind |-> "PageSource", items |-> Pages(2)]}

\* Paginator.__init__: self.pages, assigned for a source with __aiter__ and
\* for a source with __iter__, and for no other source
Paginator_pages(source) ==
    IF source.kind = "async" THEN Some(AsyncIterableSource(source.items))
    ELSE IF source.kind = "iterable" THEN Some(IterableSource(source.items))
    ELSE None

\* the state after Paginator.__init__(source, **kwargs)
Paginator_new(source, kwargs) ==
    /\ InitFieldsOf(kwargs, PaginatorButtons, <<>>, <<>>)
    /\ NoClock
    /\ choices = <<>>
    /\ prompt = None
    /\ _result = None
    /\ _use_reactions = FALSE
    /\ said = <<>>
    /\ pages = Paginator_pages(source)
    /\ _index = 0
    /\ shown = None
    /\ got = <<>>

\* the state after Paginator.__init__(source)
Paginator_init(source) == Paginator_new(source, PaginatorClass)

\* Paginator.start up to the await of send_initial_message in
\* Session.start: the probe of page 1, and without a page 1 the copy of the
\* buttons without previous and next
Paginator_start ==
    /\ pc = "idle"
    /\ LET r == pages_get_page(1)
       IN  IF r.error = Some("AttributeError")
           THEN /\ outcome' = r.error
                /\ pc' = "done"
                /\ UNCHANGED <<context, allowed_users, pages, heap,
                               inst_attrs>>
           ELSE /\ pages' = r.pages
                /\ IF r.error = Some("InvalidPage")
                   THEN /\ heap' = Append(heap,
                              DictPop(DictPop(GetAttr(Self, _BUTTONS),
                                              StrKey(PREVIOUS_EMOJI)),
                                      StrKey(NEXT_EMOJI)))
                        /\ inst_attrs' =
                              [inst_attrs EXCEPT
                                 ![Self][_BUTTONS] = Some(Len(heap) + 1)]
                   ELSE UNCHANGED <<heap, inst_attrs>>
                /\ context' = Some(Ctx)
                /\ allowed_users' = IF allowed_users = None
                                    THEN Some(UserSet({Ctx.author}))
                                    ELSE allowed_users
                /\ pc' = "send"
                /\ UNCHANGED outcome
    /\ UNCHANGED <<message, timeout, delete_after, queue, listeners, hook,
                   exc, running, react_task, enq_log, executed, cleanups,
                   http, exit_by, subs>>
    /\ UNCHANGED <<cls_attrs, ops, shadow, classes, clock_vars>>
    /\ UNCHANGED <<choices, prompt, _result, _use_reactions, said, _index,
                   shown, got>>

\* Paginator.format_page: the embed of the page, with the footer
\* f'Page {self._index}'
format_page(page) == [description |-> page, footer |-> _index]

\* Paginator.send_initial_message returned the message: _prepare, __loop
Paginator_send_initial_message_ok ==
    /\ pc = "send"
    /\ LET r == pages_get_page(0)
       IN  /\ r.error = None
           /\ pages' = r.pages
           /\ shown' = Some(format_page(r.page[1]))
    /\ message' = Some(SentMessage)
    /\ http' = http \cup {[call |-> "send", ok |-> TRUE]}
    /\ prepare
    /\ pc' = "waiting"
    /\ waited' = WindowStart
    /\ UNCHANGED <<context, timeout, delete_after, allowed_users, queue, hook,
                   exc, outcome, running, enq_log, executed, cleanups,
                   exit_by>>
    /\ UNCHANGED <<table_vars, classes, ticks>>
    /\ UNCHANGED <<choices, prompt, _result, _use_reactions, said, _index,
                   got>>

\* context.send raised discord.HTTPException: start raises it
Paginator_send_initial_message_error ==
    /\ pc = "send"
    /\ LET r == pages_get_page(0)
       IN  /\ r.error = None
           /\ pages' = r.pages
    /\ http' = http \cup {[call |-> "send", ok |-> FALSE]}
    /\ outcome' = Some("HTTPException")
    /\ pc' = "done"
    /\ UNCHANGED <<context, message, timeout, delete_after, allowed_users,
                   queue, listeners, hook, exc, running, react_task, enq_log,
                   executed, cleanups, exit_by, subs>>
    /\ UNCHANGED <<table_vars, classes, clock_vars>>
    /\ UNCHANGED <<choices, prompt, _result, _use_reactions, said, _index,
                   shown, got>>

\* the source has no page 0: get_page raises InvalidPage and start raises
\* it, before the send
Paginator_send_initial_message_invalid ==
    /\ pc = "send"
    /\ LET r == pages_get_page(0)
       IN  /\ r.error # None
           /\ pages' = r.pages
           /\ outcome' = r.error
    /\ pc' = "done"
    /\ UNCHANGED <<context, message, timeout, delete_after, allowed_users,
                   queue, listeners, hook, exc, running, react_task, enq_log,
                   executed, cleanups, http, exit_by, subs>>
    /\ UNCHANGED <<table_vars, classes, clock_vars>>
    /\ UNCHANGED <<choices, prompt, _result, _use_reactions, said, _index,
                   shown, got>>

\* a bug: the index is assigned before the page is fetched
update_message_index_first(index) ==
    LET r == pages_get_page(index)
    IN  /\ pages' = r.pages
        /\ _index' = index
        /\ IF r.error # None
           THEN UNCHANGED <<shown, said>>
           ELSE /\ shown' = Some(format_page(r.page[1]))
                /\ said' = Append(said, <<"edit", index>>)

\* Paginator.update_message(index): InvalidPage returns; else the page is
\* formatted, the index assigned and the message edited
update_message(index) ==
    LET r == pages_get_page(index)
    IN  /\ pages' = r.pages
        /\ IF r.error # None
           THEN UNCHANGED <<_index, shown, said>>
           ELSE /\ _index' = index
                /\ shown' = Some(format_page(r.page[1]))
                /\ said' = Append(said, <<"edit", index>>)

\* what no button of a Paginator changes
Paginator_frame ==
    /\ UNCHANGED <<context, message, timeout, delete_after, allowed_users,
                   hook, react_task, executed, http>>
    /\ UNCHANGED <<table_vars, classes, ticks>>
    /\ UNCHANGED <<choices, prompt, _result, _use_reactions, got>>

\* Paginator.previous(payload)
previous ==
    /\ pc = "executing"
    /\ running[1].func = "previous"
    /\ update_message(_index - 1)
    /\ callback_returns
    /\ UNCHANGED <<queue, enq_log>>
    /\ Paginator_frame

\* Paginator.quit(payload)
quit ==
    /\ pc = "executing"
    /\ running[1].func = "quit"
    /\ callback_stops
    /\ callback_returns
    /\ UNCHANGED <<pages, _index, shown, said>>
    /\ Paginator_frame

\* Paginator.next(payload)
next ==
    /\ pc = "executing"
    /\ running[1].func = "next"
    /\ update_message(_index + 1)
    /\ callback_returns
    /\ UNCHANGED <<queue, enq_log>>
    /\ Paginator_frame

\* the reactions users add to the paginator's message
PaginatorPresses ==
    [kind : {"reaction_add"}, channel : {Ctx.channel},
     message_id : {SentMessage.id}, user : Users, content : {<<>>},
     emoji : {[id |-> None, name |-> PREVIOUS_EMOJI],
              [id |-> None, name |-> STOP_EMOJI],
              [id |-> None, name |-> NEXT_EMOJI]}]

\* Session.on_raw_reaction_add of a Paginator
Paginator_on_raw_reaction_add ==
    \E p \in PaginatorPresses :
        Routed("on_raw_reaction_add", p, on_raw_reaction_action_puts(p, TRUE))

InitPaginator ==
    \E source \in PaginatorSources : pc = "idle" /\ Paginator_init(source)

NextPaginator ==
    \/ Paginator_start
    \/ Paginator_send_initial_message_ok
    \/ Paginator_send_initial_message_error
    \/ Paginator_send_initial_message_invalid
    \/ Paginator_on_raw_reaction_add
    \/ loop_get
    \/ previous
    \/ quit
    \/ next
    \/ cleanup_ok
    \/ cleanup_http_error
    \/ add_reactions_step

SpecPaginator == InitPaginator /\ [][NextPaginator]_vars

-----------------------------------------------------------------------------
(* The bot's own reactions: the events of the reactions add_reactions adds *)

\* the emoji of a reaction added under a key of the button table
EmojiOfKey(k) ==
    IF k[1] = "int" THEN [id |-> Some(k[2]), name |-> <<"k">>]
    ELSE [id |-> None, name |-> k[2]]

\* the keys whose reaction add_reactions has added
AddedKeys ==
    IF react_task.state = "none" THEN <<>>
    ELSE LET keys == DictKeys(GetAttr(Self, _BUTTONS))
         IN  SubSeq(keys, 1, Len(keys) - Len(react_task.todo))

\* the raw_reaction_add event of a reaction the bot added itself
OwnPress(k) ==
    [kind |-> "reaction_add", channel |-> Ctx.channel,
     message_id |-> SentMessage.id, user |-> Ctx.me, content |-> <<>>,
     emoji |-> EmojiOfKey(k)]

\* the bot dispatches the event of one of its own reactions to the
\* session; a reaction has one event
own_reaction_add ==
    \E i \in 1..Len(AddedKeys) :
        /\ \A n \in 1..Len(enq_log) :
              enq_log[n] # None => enq_log[n][1].ev # OwnPress(AddedKeys[i])
        /\ Routed("on_raw_reaction_add", OwnPress(AddedKeys[i]),
                  on_raw_reaction_action_puts(OwnPress(AddedKeys[i]), TRUE))

\* Paginators over an iterable, for the invoking user, for another user
\* and for everyone
InitOwn ==
    \E n \in 0..MaxPages :
    \E users \in {None, Some(UserSet({2})), Some(EVERYONE)} :
        /\ pc = "idle"
        /\ Paginator_new([kind |-> "iterable", items |-> Pages(n)],
                         [PaginatorClass EXCEPT !.allowed_users = users])

NextOwn == NextPaginator \/ own_reaction_add

SpecOwn == InitOwn /\ [][NextOwn]_vars

-----------------------------------------------------------------------------
(* Local triggers: add_button, remove_button, add_command, remove_command *)

\* the tables as the methods below see and change them
Tables == [heap |-> heap, inst |-> inst_attrs]

TbRef(tb, i, attr) ==
    IF tb.inst[i][attr] # None THEN tb.inst[i][attr][1] ELSE cls_attrs[attr]

\* a bug: the class dict is used as it is, without a copy
check_ui_mapping_no_copy(tb, i, attr) == tb

\* Session.__check_ui_mapping: an instance that still sees the class dict
\* gets a copy of it as its own attribute
check_ui_mapping(tb, i, attr) ==
    IF TbRef(tb, i, attr) # cls_attrs[attr] THEN tb
    ELSE [heap |-> Append(tb.heap, tb.heap[cls_attrs[attr]]),
          inst |-> [tb.inst EXCEPT ![i][attr] = Some(Len(tb.heap) + 1)]]

\* getattr(self, attr)[key] = value
set_item(tb, i, attr, key, value) ==
    [tb EXCEPT !.heap[TbRef(tb, i, attr)] = DictSet(@, key, value)]

\* getattr(self, attr).pop(key, None)
pop_item(tb, i, attr, key) ==
    [tb EXCEPT !.heap[TbRef(tb, i, attr)] = DictPop(@, key)]

\* the arguments the calls of the model are made with
EmojiArgs == {IntKey(12), StrKey(<<"<", ":", "k", ":", "1", "2", ">">>),
              StrKey(<<"#">>)}
PatternArgs == {PAT_NUMBER, PAT_ANY}
Callback == "callback"

\* a call on instance i that leaves the tables tb and, had every instance
\* owned its tables from the start, the tables sh
TableCall(tb, sh) ==
    /\ ops < MaxOps
    /\ ops' = ops + 1
    /\ heap' = tb.heap
    /\ inst_attrs' = tb.inst
    /\ shadow' = sh
    /\ UNCHANGED <<cls_attrs, classes>>
    /\ UNCHANGED session_vars
    /\ UNCHANGED <<clock_vars, helper_vars>>

\* Session.add_button
add_button(i, callback, emoji, unpress) ==
    LET key == parse_emoji(emoji)
        attr == IF unpress THEN _UNBUTTONS ELSE _BUTTONS
    IN  TableCall(set_item(check_ui_mapping(Tables, i, attr),
                           i, attr, key, callback),
                  [shadow EXCEPT ![i][attr] = DictSet(@, key, callback)])

\* Session.remove_button
remove_button(i, emoji) ==
    LET key == parse_emoji(emoji)
        tb1 == pop_item(check_ui_mapping(Tables, i, _BUTTONS),
                        i, _BUTTONS, key)
        tb2 == pop_item(check_ui_mapping(tb1, i, _UNBUTTONS),
                        i, _UNBUTTONS, key)
    IN  TableCall(tb2,
                  [shadow EXCEPT ![i][_BUTTONS] = DictPop(@, key),
                                 ![i][_UNBUTTONS] = DictPop(@, key)])

\* Session.add_command
add_command(i, callback, pattern) ==
    TableCall(set_item(check_ui_mapping(Tables, i, _COMMANDS),
                       i, _COMMANDS, pattern, callback),
              [shadow EXCEPT ![i][_COMMANDS] = DictSet(@, pattern, callback)])

\* Session.remove_command
remove_command(i, pattern) ==
    TableCall(pop_item(check_ui_mapping(Tables, i, _COMMANDS),
                       i, _COMMANDS, pattern),
              [shadow EXCEPT ![i][_COMMANDS] = DictPop(@, pattern)])

\* two instances of a class that declares a button, an unbutton and a command
TableClass ==
    [buttons |-> TRUE, unbuttons |-> TRUE, commands |-> "number",
     hook |-> "default", timeout |-> None, delete_after |-> FALSE,
     allowed_users |-> None]

InitTables == InitSession(TableClass)

NextTables ==
    \/ \E i \in Instances, e \in EmojiArgs, unpress \in BOOLEAN :
          add_button(i, Callback, e, unpress)
    \/ \E i \in Instances, e \in EmojiArgs : remove_button(i, e)
    \/ \E i \in Instances, p \in PatternArgs : add_command(i, Callback, p)
    \/ \E i \in Instances, p \in PatternArgs : remove_command(i, p)

SpecTables == InitTables /\ [][NextTables]_vars

-----------------------------------------------------------------------------
(* The trigger registry: Session.__init_subclass__ *)

Elems(q) == {q[i] : i \in 1..Len(q)}

Reverse(q) == [i \in 1..Len(q) |-> q[Len(q) + 1 - i]]

RECURSIVE C3Merge(_)
\* the merge of the C3 linearization that builds cls.__mro__; ok is FALSE
\* when the bases have no consistent order (the class statement raises)
C3Merge(seqs) ==
    LET ne == SelectSeq(seqs, LAMBDA q : q # <<>>)
    IN  IF ne = <<>> THEN [ok |-> TRUE, seq |-> <<>>]
        ELSE LET good == {i \in 1..Len(ne) :
                            \A j \in 1..Len(ne) :
                               Head(ne[i]) \notin Elems(Tail(ne[j]))}
             IN  IF good = {} THEN [ok |-> FALSE, seq |-> <<>>]
                 ELSE LET i == CHOOSE g \in good : \A k \in good : g <= k
                          h == Head(ne[i])
                          rest == C3Merge([j \in 1..Len(ne) |->
                                             IF Head(ne[j]) = h
                                             THEN Tail(ne[j]) ELSE ne[j]])
                      IN  [ok |-> rest.ok, seq |-> <<h>> \o rest.seq]

\* the __mro__ of a new class with these bases, without Session and object,
\* which have no tables
Mro(bases) ==
    C3Merge([i \in 1..Len(bases) |-> classes[bases[i]].mro] \o <<bases>>)

\* the functions a class body declares: @button(emoji, unpress=...) sets
\* __ui_button__, @command(pattern) sets __ui_command__
DECL_PRESS ==
    [name |-> "on_press",
     button |-> Some([emoji |-> StrKey(<<"#">>), press |-> TRUE]),
     command |-> None]
DECL_RELEASE ==
    [name |-> "on_release",
     button |-> Some([emoji |-> StrKey(<<"<", ":", "k", ":", "1", "2", ">">>),
                      press |-> FALSE]),
     command |-> None]
DECL_NUMBER ==
    [name |-> "on_number", button |-> None, command |-> Some(PAT_NUMBER)]

ClassBodies == {<<>>, <<DECL_PRESS>>, <<DECL_RELEASE, DECL_NUMBER>>}

\* the base lists of a class statement: no base but Session, or one or two
\* of the classes defined so far
BaseLists ==
    {<<>>} \cup {<<b>> : b \in 1..Len(classes)}
           \cup {<<a, b>> : a, b \in 1..Len(classes)}

RECURSIVE MergeBases(_, _, _)
\* for b in cls.__mro__[-1:0:-1]: base_class_attr_update(b, field, mapping)
MergeBases(bs, field, mapping) ==
    IF bs = <<>> THEN mapping
    ELSE MergeBases(Tail(bs), field,
                    DictUpdate(mapping, classes[Head(bs)].tables[field]))

RECURSIVE AddOwn(_, _, _, _)
\* for name, value in cls.__dict__.items(): the entries of one table kind
AddOwn(decls, c, field, mapping) ==
    IF decls = <<>> THEN mapping
    ELSE LET d == Head(decls)
             value == [cls |-> c, name |-> d.name]
             withButton ==
                IF d.button # None
                   /\ field = (IF d.button[1].press THEN _BUTTONS
                               ELSE _UNBUTTONS)
                THEN DictSet(mapping, parse_emoji(d.button[1].emoji), value)
                ELSE mapping
             withCommand ==
                IF d.command # None /\ field = _COMMANDS
                THEN DictSet(withButton, d.command[1], value)
                ELSE withButton
         IN  AddOwn(Tail(decls), c, field, withCommand)

\* Session.__init_subclass__: the three tables of the new class c
init_subclass(c, mro, decls) ==
    [field \in Attrs |->
        AddOwn(decls, c, field, MergeBases(Reverse(Tail(mro)), field, <<>>))]

\* class C(*bases): body
define_class(bases, body) ==
    /\ Len(classes) < MaxClasses
    /\ Len(bases) = Cardinality(Elems(bases))
    /\ Mro(bases).ok
    /\ LET c == Len(classes) + 1
           mro == <<c>> \o Mro(bases).seq
       IN  classes' = Append(classes,
                             [bases |-> bases, body |-> body, mro |-> mro,
                              tables |-> init_subclass(c, mro, body)])
    /\ UNCHANGED table_vars
    /\ UNCHANGED session_vars
    /\ UNCHANGED <<clock_vars, helper_vars>>

InitClasses == InitSession(TableClass)

NextClasses ==
    \E bases \in BaseLists, body \in ClassBodies : define_class(bases, body)

SpecClasses == InitClasses /\ [][NextClasses]_vars

-----------------------------------------------------------------------------
(* Properties of the lifecycle *)

IsPrefix(a, b) == Len(a) <= Len(b) /\ SubSeq(b, 1, Len(a)) = a

\* the position of the first sentinel on the log, or one past its end
FirstSentinel(log) ==
    IF \E i \in 1..Len(log) : log[i] = None
    THEN CHOOSE i \in 1..Len(log) :
            log[i] = None /\ \A j \in 1..(i - 1) : log[j] # None
    ELSE Len(log) + 1

\* the jobs put ahead of the first sentinel, in the order they were put
JobsAhead(log) == [i \in 1..(FirstSentinel(log) - 1) |-> log[i][1]]

SentinelPut == \E i \in 1..Len(enq_log) : enq_log[i] = None

LoopEnded == pc \in {"cleanup", "done"}

Sent == [call |-> "send", ok |-> TRUE] \in http

SendFailed == [call |-> "send", ok |-> FALSE] \in http

CleanupCalls == {r \in http : r.call \in {"delete", "clear_reactions"}}

\* C1: at most one job handler of the session is executing at any time,
\* whatever the router callbacks put on the queue meanwhile; a handler is
\* executing only while the loop awaits it.
C1_OneHandlerAtATime ==
    /\ Len(running) <= 1
    /\ (running # <<>>) <=> (pc = "executing")

\* C1 witness: a handler is executing, after an earlier job completed, with
\* further items already waiting on the queue.
C1_Witness ==
    /\ Len(running) = 1
    /\ Len(executed) = 2
    /\ queue # <<>>

\* C2, as claimed, for a session with the default handle_timeout: when the
\* loop ends with a sentinel already put, the jobs executed are exactly the
\* jobs put ahead of that sentinel.
C2_Original ==
    [][(~LoopEnded /\ LoopEnded' /\ Sent /\ SentinelPut /\ hook = "default")
          => executed' = JobsAhead(enq_log')]_vars

\* C2, amended: the jobs executed are always a prefix, in the order they were
\* put, of the jobs put ahead of the first sentinel (so each at most once and
\* none from behind the sentinel); when the loop ends by taking the sentinel
\* they are all of them, and the loop is then over.
C2_FifoUpToSentinel ==
    /\ IsPrefix(executed, JobsAhead(enq_log))
    /\ exit_by = "stop" =>
          /\ executed = JobsAhead(enq_log)
          /\ LoopEnded
          /\ running = <<>>

\* C2 witness: the loop ended on the sentinel after executing a job, and an
\* item put behind the sentinel is still on the queue.
C2_Witness ==
    /\ exit_by = "stop"
    /\ Len(executed) >= 1
    /\ queue # <<>>
    /\ pc = "done"

\* C3: once the initial message is sent, _cleanup is entered exactly once
\* before start ends, however the loop ended, and never more than once.
C3_CleanupExactlyOnce ==
    /\ cleanups <= 1
    /\ (Sent /\ exit_by # "none") => cleanups = 1
    /\ (Sent /\ outcome # None) => (cleanups = 1 /\ exit_by # "none")
    /\ (Sent /\ pc = "done") => outcome # None

\* C3 witness: start ended by the exception of a handler, cleanup ran once.
C3_Witness ==
    /\ pc = "done"
    /\ exit_by = "error"
    /\ outcome = Some("HandlerError")
    /\ cleanups = 1

\* C8: when the wait times out under the default handle_timeout the loop is
\* over, cleanup runs, and start raises the timeout error.
C8_TimeoutIsFatal ==
    (exit_by = "timeout" /\ hook = "default") =>
        /\ LoopEnded
        /\ running = <<>>
        /\ cleanups = 1
        /\ exc = Some("TimeoutError")
        /\ pc = "done" => outcome = Some("TimeoutError")

\* C8 witness: a session with a timeout and the default hook timed out after
\* executing a job, and start has ended.
C8_Witness ==
    /\ exit_by = "timeout"
    /\ hook = "default"
    /\ timeout # None
    /\ Len(executed) >= 1
    /\ pc = "done"

\* C9: when the initial send fails start raises the transport error and
\* nothing else has happened: no listener registered, no loop, no job
\* executed, no cleanup, no delete or clear request, no message stored.
C9_SendFailureIsFatal ==
    SendFailed =>
        /\ pc = "done"
        /\ outcome = Some("HTTPException")
        /\ listeners = {}
        /\ subs = [added |-> 0, removed |-> 0]
        /\ react_task.state = "none"
        /\ exit_by = "none"
        /\ executed = <<>>
        /\ cleanups = 0
        /\ CleanupCalls = {}
        /\ message = None

\* C9 witness: the send failed, with a sentinel waiting on the queue.
C9_Witness == SendFailed /\ queue # <<>>

\* the outcome of start that the way the loop ended calls for
ExpectedOutcome ==
    CASE exit_by = "stop" -> Some("returned")
      [] exit_by = "timeout" ->
            IF hook = "default" THEN Some("TimeoutError") ELSE Some("returned")
      [] exit_by = "error" -> Some("HandlerError")
      [] OTHER -> None

CleanupFailed == \E r \in CleanupCalls : ~r.ok

\* C10: a transport error of the delete (delete_after) or clear_reactions
\* request of cleanup changes nothing: start ends as the loop's end calls
\* for, the four listeners are removed and the message reference is cleared.
C10_CleanupFailureSwallowed ==
    CleanupFailed =>
        /\ pc = "done"
        /\ outcome = ExpectedOutcome
        /\ listeners = {}
        /\ subs = [added |-> 1, removed |-> 1]
        /\ message = None
        /\ \A r \in CleanupCalls :
              r.call = IF delete_after THEN "delete" ELSE "clear_reactions"

\* C10 witness: the delete request failed while a handler's exception was
\* propagating.
C10_Witness ==
    /\ CleanupFailed
    /\ delete_after
    /\ exit_by = "error"
    /\ pc = "done"

\* C18: the four listeners are registered together, once, after the initial
\* message is sent and before the loop begins, and removed together, once,
\* in cleanup: the registered set is empty or all four, it is all four
\* exactly while the loop runs, and removals never outnumber registrations.
C18_SubscriptionsPaired ==
    /\ listeners \in {{}, Listeners}
    /\ subs.added <= 1
    /\ subs.removed <= subs.added
    /\ (listeners = Listeners) <=> (subs.added = 1 /\ subs.removed = 0)
    /\ (listeners = Listeners) <=> (pc \in {"waiting", "executing", "hook"})
    /\ (subs.added = 1) => Sent
    /\ (subs.removed = 1) <=> (cleanups = 1)
    /\ (pc = "done" /\ Sent) => subs = [added |-> 1, removed |-> 1]

\* C18 witness: a session that executed a job has ended, with one
\* registration and one removal made and nothing left registered.
C18_Witness ==
    /\ pc = "done"
    /\ Len(executed) >= 1
    /\ subs = [added |-> 1, removed |-> 1]
    /\ listeners = {}

\* the wait for the next item times out in this step
TimedOutStep ==
    /\ pc # "hook"
    /\ exit_by = "none"
    /\ pc' = "hook" \/ exit_by' = "timeout"

\* C19: the timeout bounds the wait for the next item only.  It fires only
\* while the loop waits on the empty queue, with no handler executing, and
\* only when the pending wait has lasted a whole window; every return of a
\* handler to the wait starts a new window at zero; so a session that gets
\* an item within each window does not time out, whatever its age.
C19_TimeoutBoundsTheWait ==
    /\ [][TimedOutStep =>
            /\ pc = "waiting"
            /\ running = <<>>
            /\ queue = <<>>
            /\ waited = timeout]_vars
    /\ [][(pc # "waiting" /\ pc' = "waiting") => waited' = Some(0)]_vars
    /\ [](pc = "waiting" => waited[1] <= timeout[1])
    /\ [](pc = "executing" => exit_by = "none")

\* C19 witness: the session timed out after two windows' worth of time had
\* passed since the loop began, having executed a job on the way.
C19_Witness ==
    /\ exit_by = "timeout"
    /\ Len(executed) >= 1
    /\ ticks >= 2 * Window
    /\ pc = "done"

-----------------------------------------------------------------------------
(* Properties of the router *)

Started == listeners # {}

\* membership in allowed_users, stated apart from the code
UserOk(u) == allowed_users[1] = EVERYONE \/ u \in allowed_users[1].ids

\* the log holds only jobs of events addressed to the session by permitted
\* users
JobAddressed(j) ==
    /\ UserOk(j.ev.user)
    /\ j.ev.kind = "message" => j.ev.channel = SentMessage.channel
    /\ j.ev.kind # "message" => j.ev.message_id = SentMessage.id

\* C6: a started session puts no job for a message of another channel or of
\* a user outside allowed_users, nor for a reaction on another message or by
\* such a user; under EVERYONE every user id is a member.
C6_RouterFilters ==
    /\ \A i \in 1..Len(enq_log) :
          enq_log[i] # None => JobAddressed(enq_log[i][1])
    /\ Started =>
          /\ \A m \in MessageEvents :
                (m.channel # message[1].channel \/ ~UserOk(m.user))
                    => on_message_puts(m) = <<>>
          /\ \A p \in ReactionEvents : \A pressed \in BOOLEAN :
                (p.message_id # message[1].id \/ ~UserOk(p.user))
                    => on_raw_reaction_action_puts(p, pressed) = <<>>
          /\ allowed_users[1] = EVERYONE =>
                \A u \in Users \cup {Ctx.me} : contains(allowed_users[1], u)

\* C6 witness: under EVERYONE a job of a user other than the invoker is on
\* the queue of a started session.
C6_Witness ==
    /\ Started
    /\ allowed_users = Some(EVERYONE)
    /\ \E i \in 1..Len(queue) :
          queue[i] # None /\ queue[i][1].ev.user # Ctx.author

\* which texts each pattern of the model matches in full, stated apart from
\* the matcher
FullMatches(p, s) ==
    CASE p = PAT_NUMBER -> s # <<>> /\ \A i \in 1..Len(s) : s[i] \in Digits
      [] p = PAT_ANY -> TRUE
      [] p = PAT_ONE_A -> s \in {<<"1">>, <<"1", "a">>}

\* the one job an accepted message has to put: that of the first pattern, in
\* table order, matching the whole text, with the groups after the message
ExpectedCommandJobs(m) ==
    LET commands == GetAttr(Self, _COMMANDS)
        hit == {i \in 1..Len(commands) : FullMatches(commands[i][1], m.content)}
    IN  IF hit = {} THEN <<>>
        ELSE LET first == CHOOSE i \in hit : \A j \in hit : i <= j
             IN  <<Some([func |-> commands[first][2],
                         ev |-> m,
                         groups |-> IF commands[first][1] = PAT_ONE_A
                                    THEN <<>> ELSE <<m.content>>])>>

\* C7: for an accepted message on_message puts exactly the job of the first
\* command, in table order, whose pattern matches the whole text, with the
\* message and the groups as arguments; nothing when none matches; never
\* more than one job.
C7_FirstFullMatchWins ==
    /\ Started =>
          \A m \in MessageEvents :
             (m.channel = message[1].channel /\ UserOk(m.user)) =>
                /\ on_message_puts(m) = ExpectedCommandJobs(m)
                /\ Len(on_message_puts(m)) <= 1
    /\ \A i \in 1..Len(enq_log) :
          (enq_log[i] # None /\ enq_log[i][1].ev.kind = "message") =>
              <<enq_log[i]>> = ExpectedCommandJobs(enq_log[i][1].ev)

\* C7 witness: a text both commands match was put for the command that
\* comes first in the table, the one without groups.
C7_Witness ==
    \E i \in 1..Len(enq_log) :
        /\ enq_log[i] # None
        /\ enq_log[i][1].func = "on_one_a"
        /\ enq_log[i][1].ev.content = <<"1">>
        /\ enq_log[i][1].groups = <<>>

-----------------------------------------------------------------------------
(* Properties of the local triggers *)

\* the references of the dicts an instance owns
OwnedRefs(i) == {inst_attrs[i][a][1] : a \in {b \in Attrs : inst_attrs[i][b] # None}}

ClassRefs == {cls_attrs[a] : a \in Attrs}

\* the class tables are the tables the class was defined with
ClassTablesIntact ==
    /\ cls_attrs = (_BUTTONS :> 1) @@ (_COMMANDS :> 2) @@ (_UNBUTTONS :> 3)
    /\ heap[cls_attrs[_BUTTONS]] = ButtonsOf(TableClass)
    /\ heap[cls_attrs[_COMMANDS]] = CommandsOf(TableClass)
    /\ heap[cls_attrs[_UNBUTTONS]] = UnbuttonsOf(TableClass)

\* no dict an instance owns is the class's or another instance's
NoSharedDict ==
    /\ \A i \in Instances : OwnedRefs(i) \cap ClassRefs = {}
    /\ \A i, j \in Instances : i # j => OwnedRefs(i) \cap OwnedRefs(j) = {}
    /\ \A i \in Instances : \A a, b \in Attrs :
          (a # b /\ inst_attrs[i][a] # None /\ inst_attrs[i][b] # None)
              => inst_attrs[i][a] # inst_attrs[i][b]

\* every instance sees the tables it would see had it owned them from the
\* start: no call on another instance shows in them
SeesOwnCalls == \A i \in Instances : \A a \in Attrs : GetAttr(i, a) = shadow[i][a]

\* a step gives an instance an own dict at most once per table kind, and
\* changes no dict but those of the one instance it is made on
OwnedOnce ==
    /\ \A i \in Instances : \A a \in Attrs :
          inst_attrs[i][a] # None => inst_attrs'[i][a] = inst_attrs[i][a]
    /\ \A r \in 1..Len(heap) : heap'[r] # heap[r] =>
          \E i \in Instances :
             /\ r \in OwnedRefs(i)'
             /\ \A j \in Instances \ {i} : inst_attrs'[j] = inst_attrs[j]

\* C4: add_button, remove_button, add_command and remove_command on an
\* instance leave the class tables and every other instance's tables as
\* they were; the first mutation of a table kind gives the instance an own
\* copy of the class table, and every later one writes to that copy.
C4_CopyOnWriteIsolation ==
    /\ [](ClassTablesIntact /\ NoSharedDict /\ SeesOwnCalls)
    /\ [][OwnedOnce]_vars

\* C4 witness: both instances have changed their buttons, one of them twice,
\* and the two button tables differ from each other and from the class's.
C4_Witness ==
    /\ inst_attrs[1][_BUTTONS] # None
    /\ inst_attrs[2][_BUTTONS] # None
    /\ Len(GetAttr(1, _BUTTONS)) = 2
    /\ GetAttr(2, _BUTTONS) = <<>>
    /\ heap[cls_attrs[_BUTTONS]] = ButtonsOf(TableClass)
    /\ ops = 3

-----------------------------------------------------------------------------
(* Properties of the trigger registry *)

\* the keys a class body declares for a table kind, and the function of each
Declared(c, field) ==
    LET body == classes[c].body
    IN  {<<IF field = _COMMANDS THEN body[i].command[1]
           ELSE parse_emoji(body[i].button[1].emoji),
           [cls |-> c, name |-> body[i].name]>> :
            i \in {k \in 1..Len(body) :
                     IF field = _COMMANDS THEN body[k].command # None
                     ELSE /\ body[k].button # None
                          /\ body[k].button[1].press = (field = _BUTTONS)}}

Declares(c, field, key) == \E kv \in Declared(c, field) : kv[1] = key

\* d is c or an ancestor of c
IsAncestorOrSelf(d, c) == d \in Elems(classes[c].mro)

\* C5: the merged table of a class holds every key the class or one of its
\* ancestors declares, with the function of a most derived declaring class:
\* its own when it declares the key, and never one that a class between it
\* and the declarer overrides.
C5_MostDerivedWins ==
    \A c \in 1..Len(classes) : \A field \in Attrs :
       \A d \in Elems(classes[c].mro) : \A kv \in Declared(d, field) :
          LET entry == DictGet(classes[c].tables[field], kv[1])
          IN  /\ entry # None
              /\ Declares(entry[1].cls, field, kv[1])
              /\ IsAncestorOrSelf(entry[1].cls, c)
              /\ <<kv[1], entry[1]>> \in Declared(entry[1].cls, field)
              /\ ~\E o \in Elems(classes[c].mro) :
                     /\ o # entry[1].cls
                     /\ Declares(o, field, kv[1])
                     /\ IsAncestorOrSelf(entry[1].cls, o)

-----------------------------------------------------------------------------
(* Properties of the Selector *)

\* some but not all of the choices declare a button
Mixed(cs) ==
    \E i, j \in 1..Len(cs) : cs[i].button # None /\ cs[j].button = None

\* C11: constructing a Selector raises the configuration error (ValueError)
\* exactly when some but not all choices declare a button, and succeeds
\* otherwise; nothing has been sent either way.
C11_MixedChoicesRejected ==
    pc # "new" =>
        /\ (outcome = Some("ValueError")) <=> Mixed(choices)
        /\ ~Mixed(choices) => (pc = "idle" /\ outcome = None)
        /\ http = {}
        /\ message = None

\* the Selector is started, in text mode or in reaction mode
TextMode == pc \in {"waiting", "executing"} /\ ~_use_reactions
ReactionMode == pc \in {"waiting", "executing"} /\ _use_reactions

\* the message is in the session's channel, from a permitted user
Addressed(m) ==
    /\ m.channel = message[1].channel
    /\ contains(allowed_users[1], m.user)

\* the text consists of digits only
IsNumber(text) ==
    text # <<>> /\ \A i \in 1..Len(text) : text[i] \in {"0", "1", "2"}

\* the callback func of the running job returns in this step
CallbackStep(func) ==
    /\ pc = "executing"
    /\ running[1].func = func
    /\ pc' # "executing"

\* the callback left the result alone, said what is given (nothing when
\* line is <<>>) and the session goes on waiting, unstopped
KeepsRunning(line) ==
    /\ said' = said \o line
    /\ _result' = _result
    /\ queue' = queue
    /\ pc' = "waiting"
    /\ exit_by' = "none"

\* the callback set the result, said nothing and stopped the session
Chooses(value) ==
    /\ _result' = Some(value)
    /\ queue' = Append(queue, None)
    /\ said' = said

\* C12: in text mode a message of digits only, of value k, from a permitted
\* user in the channel is routed to _on_number_input, which sets the result
\* to the k-th choice's value and stops when 1 <= k <= N, and otherwise
\* sends the out-of-range message, leaves the result and keeps running.
C12_NumberInput ==
    /\ [](TextMode =>
            \A m \in SelectorMessages :
               (Addressed(m) /\ IsNumber(m.content)) =>
                  on_message_puts(m) =
                     <<Some(Job("_on_number_input", m, <<m.content>>))>>)
    /\ [][CallbackStep("_on_number_input") =>
            LET number == running[1].groups[1]
                k == int(number)
            IN  IF 1 <= k /\ k <= Len(choices)
                THEN Chooses(choices[k].value)
                ELSE KeepsRunning(<<<<"out of range", number>>>>)]_vars

\* C12 witness: of two choices, "0" was answered with the out-of-range
\* message and "2" then chose the second; the session stopped.
C12_Witness ==
    /\ choices = <<CH_AK, CH_A>>
    /\ said = <<<<"out of range", <<"0">>>>>>
    /\ _result = Some("A")
    /\ exit_by = "stop"
    /\ pc = "done"

\* the choices whose pattern matches the text (re.match, as the code has it)
Matching(text) ==
    {i \in 1..Len(choices) :
        choices[i].pattern # None /\ re_match(choices[i].pattern[1], text)}

\* C13: in text mode a non-numeric message from a permitted user in the
\* channel whose text matches the pattern of some choice is routed to
\* _on_text_input; the callback does nothing for no match, sends the
\* ambiguity message for several, both without stopping, and sets the result
\* and stops for exactly one.
C13_TextInput ==
    /\ [](TextMode =>
            \A m \in SelectorMessages :
               (Addressed(m) /\ ~IsNumber(m.content)
                  /\ Matching(m.content) # {}) =>
                  on_message_puts(m) =
                     <<Some(Job("_on_text_input", m, <<m.content>>))>>)
    /\ [][CallbackStep("_on_text_input") =>
            LET text == running[1].groups[1]
                hits == Matching(text)
            IN  IF hits = {} THEN KeepsRunning(<<>>)
                ELSE IF Cardinality(hits) > 1
                THEN KeepsRunning(<<<<"ambiguous", text>>>>)
                ELSE Chooses(choices[CHOOSE i \in hits : TRUE].value)]_vars

\* the prompt followed by the formatted choices
PromptThenChoices ==
    IF prompt[1].kind = "embed"
    THEN [content |-> None, embed |-> Some(<<"prompt", format_choices>>)]
    ELSE [content |-> Some(<<"prompt", format_choices>>), embed |-> None]

\* C17: for a prompt that is a str, an embed or a Message, start (unless the
\* transport fails) sends the initial message, made of the prompt followed
\* by the formatted choices, and the session is started.
C17_EveryPromptKind ==
    (pc \notin {"idle", "send"} /\ ~SendFailed) =>
        /\ Sent
        /\ subs.added = 1
        /\ shown = Some(PromptThenChoices)

\* C20: in reaction mode a reaction-add on the session's message by a
\* permitted user with the button emoji of a choice, unicode or custom, is
\* routed to _on_button_press, which sets the result to that choice's value
\* and stops.
C20_ButtonPress ==
    /\ [](ReactionMode =>
            \A i \in 1..Len(choices) :
               \A p \in {e \in ReactionEvents : e.kind = "reaction_add"} :
                  (/\ p.message_id = message[1].id
                   /\ contains(allowed_users[1], p.user)
                   /\ emoji_str(p.emoji) = choices[i].button[1]) =>
                      on_raw_reaction_action_puts(p, TRUE) =
                         <<Some(Job("_on_button_press", p, <<>>))>>)
    /\ [][CallbackStep("_on_button_press") =>
            \E i \in 1..Len(choices) :
               /\ choices[i].button[1] = emoji_str(running[1].ev.emoji)
               /\ Chooses(choices[i].value)]_vars

-----------------------------------------------------------------------------
(* Properties of the page sources *)

\* the iterable a source was constructed over: what it has cached, then
\* what its iterator still holds
Backing(src) == src._cache \o src._it

\* C14: over every sequence of get_page calls, in any order of indices, an
\* index that is negative or past the end of the iterable raises
\* InvalidPage, every other index returns the item at that position, and
\* the source has consumed the iterable in order, each item once: the cache
\* and the rest of the iterator are the iterable, no item skipped or
\* repeated.
C14_PagesInOrder ==
    pages # None =>
        /\ Backing(pages[1]) = Pages(Len(Backing(pages[1])))
        /\ \A k \in 1..Len(got) :
              IF got[k].index >= 0 /\ got[k].index < Len(Backing(pages[1]))
              THEN /\ got[k].error = None
                   /\ got[k].page = Some(Backing(pages[1])[got[k].index + 1])
              ELSE /\ got[k].error = Some("InvalidPage")
                   /\ got[k].page = None

\* page 1 was asked before page 0, then an index past the end
C14_Witness ==
    /\ pages # None
    /\ Len(Backing(pages[1])) = 2
    /\ Len(got) = 3
    /\ got[1].index = 1 /\ got[1].page = Some(1)
    /\ got[2].index = 0 /\ got[2].page = Some(0)
    /\ got[3].index = 2 /\ got[3].error = Some("InvalidPage")

\* the index a press of previous or next asks for
Requested == IF running[1].func = "previous" THEN _index - 1 ELSE _index + 1

\* the source has a page of that index
Exists(index) == index >= 0 /\ index < Len(Backing(pages[1]))

C16_EverySourceKind ==
    (/\ pc \notin {"idle", "send"}
     /\ [call |-> "send", ok |-> FALSE] \notin http
     /\ (pages = None \/ Backing(pages[1]) # <<>>))
    => /\ Sent
       /\ subs.added = 1
       /\ shown # None
       /\ (said = <<>> => shown[1].description = 0)

-----------------------------------------------------------------------------
(* Properties of the reaction task, the hook and a second start *)

\* add_reactions runs its next iteration in this step: it evaluates
\* self.message.add_reaction(emoji)
UsesMessage ==
    /\ react_task.state = "running"
    /\ react_task.todo # <<>>
    /\ react_task' # react_task

\* C22: whenever the task created by _prepare runs an iteration, the
\* session still has its message: cleanup has not cleared the reference,
\* and its delete or clear_reactions request has not been answered.
C22_TaskWithinSession ==
    [][UsesMessage => (message # None /\ CleanupCalls = {})]_vars

\* C21: when start has ended after a cleanup the message reference is
\* cleared, and from the end of the first cleanup on nothing is started
\* again: no message is stored, no listener subscribed or removed, no job
\* executed.
C21_SingleUse ==
    /\ []((pc = "done" /\ cleanups >= 1) => message = None)
    /\ [][(cleanups >= 1 /\ pc # "cleanup")
            => UNCHANGED <<message, subs, executed>>]_vars

\* C24: the wait times out at most once, and handle_timeout ends the loop
\* however it ends: the step that leaves an overriding hook enters cleanup,
\* by the hook's exception or by the break after its return; after a
\* timeout the session never waits for or executes a job again; and when
\* the hook returned, start returns normally after one cleanup.
C24_HookEndsTheLoop ==
    /\ [][TimedOutStep => pc = "waiting"]_vars
    /\ [][(pc = "hook" /\ pc' # "hook")
            => (pc' = "cleanup" /\ exit_by' = "timeout" /\ cleanups' = 1)]_vars
    /\ [](pc = "hook" => (exit_by = "none" /\ cleanups = 0 /\ running = <<>>))
    /\ [](exit_by = "timeout" => pc \in {"cleanup", "done"})
    /\ []((pc = "done" /\ exit_by = "timeout" /\ exc = None)
            => (outcome = Some("returned") /\ cleanups = 1 /\ message = None))

\* C24 witness: an overriding hook returned after a timeout that followed a
\* job, cleanup ran and start returned
C24_Witness ==
    /\ pc = "done"
    /\ hook = "custom"
    /\ exit_by = "timeout"
    /\ exc = None
    /\ outcome = Some("returned")
    /\ Len(executed) >= 1
    /\ queue = <<>>

-----------------------------------------------------------------------------
(* Properties of the Paginator's footer and of the bot's own reactions *)

\* C25: the footer of the page the message shows carries the current
\* index, after the initial send and after every navigation that found its
\* page.
C25_FooterIsIndex == shown # None => shown[1].footer = _index

\* C23: no job on the queue comes from a reaction the bot added itself,
\* whatever allowed_users is.
C23_OwnReactionsIgnored ==
    \A n \in 1..Len(enq_log) :
        enq_log[n] # None => enq_log[n][1].ev.user # Ctx.me

====
